---- MODULE Spec2Model ----
(***************************************************************************)
(* Form2SDCValidator (src/form2sdc/validator.py): the validation pipeline  *)
(* of a "front matter + components" markdown document.                     *)
(*                                                                         *)
(* A text is a sequence of lines (content.split("\n")).  A line is a      *)
(* token that records what the three line regexes of _parse_components     *)
(* and the delimiter test of _extract_yaml_and_body see in it.  Component  *)
(* names are sequences of characters, keyword values are strings taken     *)
(* from a fixed vocabulary whose parses (float, int, date, regex) are      *)
(* tabulated below.                                                        *)
(***************************************************************************)
EXTENDS Integers, Sequences, FiniteSets, TLC

VARIABLES
    self,       \* the fields of the one Form2SDCValidator instance
    returned,   \* the calls that have ended, oldest first, as their callers hold them
    pending,    \* the calls still to be made: <<markdown_content, document>> each
    now,        \* the wall clock read by _build_result
    nextId,     \* identity of the next list object to be allocated
    pc,         \* per thread: position inside validate (SpecConc)
    loc         \* per thread: the locals of validate (SpecConc)

vars == <<self, returned, pending, now, nextId, pc, loc>>

(***************************************************************************)
(* Bounds                                                                  *)
(***************************************************************************)
MaxCalls == 2       \* calls made on one instance (SpecSeq)
MaxTime == 1        \* clock ticks
MaxSiblings == 1    \* components after the root and the field under test
MaxBom == 1         \* byte-order marks before the first line

(***************************************************************************)
(* Characters and names                                                    *)
(***************************************************************************)
UpperChars == <<"A", "B", "C", "D", "E", "F", "G", "H", "I", "J", "K", "L", "M",
                "N", "O", "P", "Q", "R", "S", "T", "U", "V", "W", "X", "Y", "Z">>
LowerChars == <<"a", "b", "c", "d", "e", "f", "g", "h", "i", "j", "k", "l", "m",
                "n", "o", "p", "q", "r", "s", "t", "u", "v", "w", "x", "y", "z">>

\* str.lower() on one character
LowerChar(c) ==
    IF \E i \in 1..26 : UpperChars[i] = c
    THEN LowerChars[CHOOSE i \in 1..26 : UpperChars[i] = c]
    ELSE c

\* str.lower()
Lower(s) == [i \in 1..Len(s) |-> LowerChar(s[i])]

IsSpace(c) == c \in {" ", "\t", "\r"}

RECURSIVE LStrip(_)
LStrip(s) == IF s # <<>> /\ IsSpace(Head(s)) THEN LStrip(Tail(s)) ELSE s

RECURSIVE RStrip(_)
RStrip(s) ==
    IF s # <<>> /\ IsSpace(s[Len(s)]) THEN RStrip(SubSeq(s, 1, Len(s) - 1)) ELSE s

\* str.strip()
Strip(s) == RStrip(LStrip(s))

\* Optional[str]: None is <<>>, a value v is <<v>>
None == <<>>
Some(v) == <<v>>

(***************************************************************************)
(* Lines                                                                   *)
(*   delim   `---`, pad = TRUE when whitespace surrounds it                *)
(*   blank   empty or whitespace only                                      *)
(*   text    other text: matches none of the regexes; in the YAML block    *)
(*           its first character cannot start a YAML token                 *)
(*   yaml    `key: val` at nesting depth ind (0 top level, 1 nested)       *)
(*   head    `## name`       (heading_re; name is group(2) before strip)   *)
(*   bold    `**name**`      (bold_re only; name is group(1) before strip) *)
(*   kw      `**key**: val`  (keyword_re only; val is group(2) stripped)   *)
(*   kwbold  `**key**: val` with val ending in `**`, so that bold_re and  *)
(*           keyword_re both match                                         *)
(***************************************************************************)
Line(k, pad, ind, name, key, val) ==
    [k |-> k, pad |-> pad, ind |-> ind, name |-> name, key |-> key, val |-> val]

DelimLine(pad) == Line("delim", pad, 0, <<>>, "", "")
BlankLine == Line("blank", FALSE, 0, <<>>, "", "")
TextLine == Line("text", FALSE, 0, <<>>, "", "")
YamlLine(ind, key, val) == Line("yaml", FALSE, ind, <<>>, key, val)
HeadLine(name) == Line("head", FALSE, 0, name, "", "")
BoldLine(name) == Line("bold", FALSE, 0, name, "", "")
KwLine(key, val) == Line("kw", FALSE, 0, <<>>, key, val)
KwBoldLine(key, val) == Line("kwbold", FALSE, 0, <<>>, key, val)

\* a text: `bom` leading U+FEFF characters, then the lines
Text(bom, lines) == [bom |-> bom, lines |-> lines]

\* "".split("\n") is [""]: a text always has a first line
EmptyText == Text(0, <<BlankLine>>)

(***************************************************************************)
(* Issues and the instance's buffers                                       *)
(***************************************************************************)
\* ValidationIssue; the (always empty) context and column are left out,
\* `message` is the message text or, for an f-string, its fixed part, and
\* `fix` is the fix text of E-CMP-001, the one fix computed from a table,
\* and empty for the other codes
ValidationIssue(code, severity, message, line, component, keyword) ==
    [code |-> code, severity |-> severity, message |-> message, line |-> line,
     fix |-> "", component |-> component, keyword |-> keyword]

_add_error(b, code, line, message, component, keyword) ==
    [b EXCEPT !.errors =
        Append(@, ValidationIssue(code, "CRITICAL", message, line, component, keyword))]

\* _add_error called with a fix text
AddErrorWithFix(b, code, line, message, fix, component, keyword) ==
    [b EXCEPT !.errors =
        Append(@, [ValidationIssue(code, "CRITICAL", message, line, component, keyword)
                      EXCEPT !.fix = fix])]

\* the warning appended to the errors
AddWarningToErrors(b, code, line, message, component, keyword) ==
    [b EXCEPT !.errors =
        Append(@, ValidationIssue(code, "WARNING", message, line, component, keyword))]

_add_warning(b, code, line, message, component, keyword) ==
    [b EXCEPT !.warnings =
        Append(@, ValidationIssue(code, "WARNING", message, line, component, keyword))]

_add_suggestion(b, code, line, message, component, keyword) ==
    [b EXCEPT !.suggestions =
        Append(@, ValidationIssue(code, "SUGGESTION", message, line, component, keyword))]

_has_critical_errors(b) == Len(b.errors) > 0

\* Form2SDCValidator.__init__: three list objects (ids 1..3) and no components
NewValidator ==
    [errors |-> <<>>, warnings |-> <<>>, suggestions |-> <<>>,
     components |-> <<>>, yaml_end_line |-> 0,
     ids |-> [errors |-> 1, warnings |-> 2, suggestions |-> 3]]

\* the reset without `self._errors = []`
ResetKeepsErrors(s, id) ==
    [s EXCEPT !.warnings = <<>>, !.suggestions = <<>>, !.components = <<>>,
              !.yaml_end_line = 0,
              !.ids = [errors |-> s.ids.errors, warnings |-> id + 1,
                       suggestions |-> id + 2]]

\* the reset without `self._suggestions = []`
ResetKeepsSuggestions(s, id) ==
    [s EXCEPT !.errors = <<>>, !.warnings = <<>>, !.components = <<>>,
              !.yaml_end_line = 0,
              !.ids = [errors |-> id, warnings |-> id + 1,
                       suggestions |-> s.ids.suggestions]]

\* the reset without `self._components = []`
ResetKeepsComponents(s, id) ==
    [s EXCEPT !.errors = <<>>, !.warnings = <<>>, !.suggestions = <<>>,
              !.yaml_end_line = 0,
              !.ids = [errors |-> id, warnings |-> id + 1, suggestions |-> id + 2]]

\* the head of validate: every buffer is rebound to a new, empty list
ResetBuffers(s, id) ==
    [errors |-> <<>>, warnings |-> <<>>, suggestions |-> <<>>,
     components |-> <<>>, yaml_end_line |-> 0,
     ids |-> [errors |-> id, warnings |-> id + 1, suggestions |-> id + 2]]

(***************************************************************************)
(* YAML extraction                                                         *)
(***************************************************************************)
\* content.lstrip("\ufeff")
\* the content taken as it comes, byte-order mark included
KeepBOM(content) == content

StripBOM(content) == [content EXCEPT !.bom = 0]

\* lines[i].strip() == "---"  (a byte-order mark left on the first line is
\* not whitespace and stays in the way)
IsDelimiter(content, i) ==
    /\ content.lines[i].k = "delim"
    /\ (i = 1 => content.bom = 0)

Min(S) == CHOOSE x \in S : \A y \in S : x <= y

\* an extraction that takes an unclosed block to run to the end of the text
ExtractUnclosed(b, raw) ==
    LET content == StripBOM(raw)
        lines == content.lines
        closing == {i \in 2..Len(lines) : IsDelimiter(content, i)}
        i == IF closing = {} THEN Len(lines) + 1 ELSE Min(closing)
    IN  IF ~IsDelimiter(content, 1)
        THEN [b |-> b, found |-> FALSE, yaml_block |-> <<>>, body |-> lines]
        ELSE [b |-> [b EXCEPT !.yaml_end_line = i],
              found |-> TRUE,
              yaml_block |-> SubSeq(lines, 2, i - 1),
              body |-> SubSeq(lines, i + 1, Len(lines))]

\* _extract_yaml_and_body: (yaml_block, body) and the _yaml_end_line it sets;
\* found = FALSE is the (None, content) return
_extract_yaml_and_body(b, raw) ==
    LET content == StripBOM(raw)
        lines == content.lines
        closing == {i \in 2..Len(lines) : IsDelimiter(content, i)}
    IN  IF ~IsDelimiter(content, 1) \/ closing = {}
        THEN [b |-> b, found |-> FALSE, yaml_block |-> <<>>, body |-> lines]
        ELSE LET i == Min(closing)
             IN  [b |-> [b EXCEPT !.yaml_end_line = i],
                  found |-> TRUE,
                  yaml_block |-> SubSeq(lines, 2, i - 1),
                  body |-> SubSeq(lines, i + 1, Len(lines))]

(***************************************************************************)
(* yaml.safe_load on the block's lines.  Python values: None, a str, or a  *)
(* dict held as the list of its <<key, value>> items in source order (a    *)
(* repeated key keeps its last value).                                     *)
(***************************************************************************)
PyNone == [t |-> "none", s |-> "", m |-> <<>>]
PyStr(s) == [t |-> "str", s |-> s, m |-> <<>>]
PyDict(m) == [t |-> "dict", s |-> "", m |-> m]

\* the scalar after `key:`; nothing is None, `""` is the empty string
YamlEmptyString == "\"\""
\* the double-quoted scalars of the input texts and what they load as
QuotedTable ==
    <<<<"\"Test\"", "Test">>, <<"\"English\"", "English">>, <<"\"4.0.0\"", "4.0.0">>,
      <<"\"About\"", "About">>, <<"\"Suite\"", "Suite">>, <<"\"Health\"", "Health">>>>

IsQuoted(val) == \E i \in 1..Len(QuotedTable) : QuotedTable[i][1] = val

Unquoted(val) == QuotedTable[CHOOSE i \in 1..Len(QuotedTable) : QuotedTable[i][1] = val][2]

YamlScalar(val) ==
    IF val = "" THEN PyNone
    ELSE IF val = YamlEmptyString THEN PyStr("")
    ELSE IF IsQuoted(val) THEN PyStr(Unquoted(val))
    ELSE PyStr(val)

\* bool(v)
Truthy(v) == (v.t = "str" /\ v.s # "") \/ (v.t = "dict" /\ v.m # <<>>)

\* key in d
In(key, d) == \E i \in 1..Len(d.m) : d.m[i][1] = key

\* d[key]
Item(d, key) ==
    LET last == CHOOSE i \in 1..Len(d.m) :
                    d.m[i][1] = key /\ \A j \in (i + 1)..Len(d.m) : d.m[j][1] # key
    IN  d.m[last][2]

\* d.get(key)
Get(d, key) == IF In(key, d) THEN Item(d, key) ELSE PyNone

\* blank lines and `#` comment lines carry no YAML content
YamlSkipped(l) == l.k \in {"blank", "head"}

\* the line before p that carries content, 0 when there is none
PrevContent(block, p) ==
    LET S == {q \in 1..(p - 1) : ~YamlSkipped(block[q])}
    IN  IF S = {} THEN 0 ELSE CHOOSE q \in S : \A r \in S : r <= q

\* a line the scanner or parser rejects: a character that starts no token
\* (`**`, other text), or a nested entry with no `key:` line to hang under
YamlBadLine(block, p) ==
    LET l == block[p]
        q == PrevContent(block, p)
    IN  \/ l.k \in {"text", "bold", "kw", "kwbold", "delim"}
        \/ /\ l.k = "yaml" /\ l.ind = 1
           /\ \/ q = 0
              \/ block[q].k # "yaml"
              \/ (block[q].ind = 0 /\ block[q].val # "")

\* the nested entries under the top-level line p
NestedUnder(block, p) ==
    LET stop == {q \in (p + 1)..Len(block) : block[q].k = "yaml" /\ block[q].ind = 0}
        end == IF stop = {} THEN Len(block) ELSE Min(stop) - 1
    IN  SelectSeq(SubSeq(block, p + 1, end), LAMBDA l : l.k = "yaml" /\ l.ind = 1)

RECURSIVE YamlItems(_, _)
YamlItems(block, p) ==
    IF p > Len(block) THEN <<>>
    ELSE IF block[p].k = "yaml" /\ block[p].ind = 0
    THEN LET l == block[p]
             nested == NestedUnder(block, p)
             value == IF l.val # "" \/ nested = <<>> THEN YamlScalar(l.val)
                      ELSE PyDict([i \in 1..Len(nested) |->
                                      <<nested[i].key, YamlScalar(nested[i].val)>>])
         IN  <<<<l.key, value>>>> \o YamlItems(block, p + 1)
    ELSE YamlItems(block, p + 1)

\* yaml.safe_load: kind "error" is a raised YAMLError whose problem_mark.line
\* is `line` (0-based in the block); otherwise `value` is what is returned
safe_load(block) ==
    LET bad == {p \in 1..Len(block) : YamlBadLine(block, p)}
        items == YamlItems(block, 1)
    IN  IF bad # {} THEN [kind |-> "error", line |-> Min(bad) - 1, value |-> PyNone]
        ELSE IF items = <<>> THEN [kind |-> "value", line |-> 0, value |-> PyNone]
        ELSE [kind |-> "value", line |-> 0, value |-> PyDict(items)]

\* _parse_yaml: the front matter dict, or ok = FALSE (None) with E-DOC-002
_parse_yaml(b, yaml_block) ==
    LET r == safe_load(yaml_block)
    IN  IF r.kind = "error"
        THEN [ok |-> FALSE, fm |-> PyNone,
              b |-> _add_error(b, "E-DOC-002", r.line + 2, "Invalid YAML syntax",
                               None, None)]
        ELSE IF r.value.t # "dict"
        THEN [ok |-> FALSE, fm |-> PyNone,
              b |-> _add_error(b, "E-DOC-002", 2,
                               "YAML front matter must be a mapping (key: value pairs)",
                               None, None)]
        ELSE [ok |-> TRUE, fm |-> r.value, b |-> b]

(***************************************************************************)
(* Front matter validation                                                 *)
(***************************************************************************)
\* isinstance(fm.get("dataset"), dict)
HasDatasetDict(fm) == Get(fm, "dataset").t = "dict"

\* a normalisation that prefers dataset.name to the flat key
NormalizeNestedFirst(fm) ==
    [project_name |->
        IF HasDatasetDict(fm) /\ Truthy(Get(Get(fm, "dataset"), "name"))
        THEN Some(Item(Get(fm, "dataset"), "name"))
        ELSE IF In("project_name", fm) THEN Some(Item(fm, "project_name"))
        ELSE None,
     source_language |->
        IF In("source_language", fm) THEN Some(Item(fm, "source_language")) ELSE None,
     template_version |->
        IF In("template_version", fm) THEN Some(Item(fm, "template_version")) ELSE None]

\* _normalize_front_matter: the canonical fields, each None or Some(value)
_normalize_front_matter(fm) ==
    [project_name |->
        IF In("project_name", fm) THEN Some(Item(fm, "project_name"))
        ELSE IF HasDatasetDict(fm) /\ Truthy(Get(Get(fm, "dataset"), "name"))
        THEN Some(Item(Get(fm, "dataset"), "name"))
        ELSE None,
     source_language |->
        IF In("source_language", fm) THEN Some(Item(fm, "source_language")) ELSE None,
     template_version |->
        IF In("template_version", fm) THEN Some(Item(fm, "template_version")) ELSE None]

\* not normalized.get(field)
NotGiven(opt) == opt = None \/ ~Truthy(opt[1])

\* a required-field check that stops at the first missing field
ValidateFirstMissing(b0, fm) ==
    LET normalized == _normalize_front_matter(fm)
    IN  IF NotGiven(normalized.project_name)
        THEN _add_error(b0, "E-DOC-003", 2,
                 "Missing required field 'project_name' in YAML front matter",
                 None, None)
        ELSE IF NotGiven(normalized.source_language)
        THEN _add_error(b0, "E-DOC-004", 2,
                 "Missing required field 'source_language' in YAML front matter",
                 None, None)
        ELSE IF NotGiven(normalized.template_version)
        THEN _add_error(b0, "E-DOC-005", 2,
                 "Missing required field 'template_version' in YAML front matter",
                 None, None)
        ELSE b0

_validate_front_matter(b0, fm) ==
    LET normalized == _normalize_front_matter(fm)
        b1 == IF NotGiven(normalized.project_name)
              THEN _add_error(b0, "E-DOC-003", 2,
                       "Missing required field 'project_name' in YAML front matter",
                       None, None)
              ELSE b0
        b2 == IF NotGiven(normalized.source_language)
              THEN _add_error(b1, "E-DOC-004", 2,
                       "Missing required field 'source_language' in YAML front matter",
                       None, None)
              ELSE b1
        b3 == IF NotGiven(normalized.template_version)
              THEN _add_error(b2, "E-DOC-005", 2,
                       "Missing required field 'template_version' in YAML front matter",
                       None, None)
              ELSE b2
        b4 == IF ~In("description", fm)
                 /\ ~(HasDatasetDict(fm) /\ In("description", Get(fm, "dataset")))
              THEN _add_suggestion(b3, "S-QL-005", 2,
                       "Consider adding a 'description' field to front matter",
                       None, None)
              ELSE b3
        b5 == IF ~In("author", fm) /\ ~In("creator", fm)
                 /\ ~(HasDatasetDict(fm) /\ In("creator", Get(fm, "dataset")))
              THEN _add_suggestion(b4, "S-QL-005", 2,
                       "Consider adding an 'author' field to front matter for traceability",
                       None, None)
              ELSE b4
    IN  b5

(***************************************************************************)
(* Rule tables                                                             *)
(***************************************************************************)
VALID_TYPES ==
    {"Cluster", "XdString", "XdBoolean", "XdCount", "XdQuantity", "XdFloat",
     "XdDouble", "XdTemporal", "XdOrdinal", "XdRatio", "XdInterval", "XdFile",
     "XdLink", "XdToken"}

QUANTIFIED_TYPES == {"XdCount", "XdQuantity", "XdFloat", "XdDouble"}

\* KEYWORD_ALIASES: deprecated keyword -> canonical keyword
KEYWORD_ALIASES == <<<<"Values", "Enumeration">>, <<"Unit", "Units">>>>

IsAlias(keyword) == \E i \in 1..Len(KEYWORD_ALIASES) : KEYWORD_ALIASES[i][1] = keyword

AliasOf(keyword) ==
    KEYWORD_ALIASES[CHOOSE i \in 1..Len(KEYWORD_ALIASES) : KEYWORD_ALIASES[i][1] = keyword][2]

(***************************************************************************)
(* Keyword values: what float(), int(), date.fromisoformat(), re.compile() *)
(* and the reference regex make of each value of the vocabulary            *)
(***************************************************************************)
\* float(v), in tenths; a value not listed raises ValueError
FloatTable ==
    <<<<"0", 0>>, <<"2", 20>>, <<"5", 50>>, <<"1.5", 15>>, <<"7.5", 75>>,
      <<"0.0", 0>>, <<"5.0", 50>>>>

IsFloat(v) == \E i \in 1..Len(FloatTable) : FloatTable[i][1] = v

FloatOf(v) == FloatTable[CHOOSE i \in 1..Len(FloatTable) : FloatTable[i][1] = v][2]

\* int(v) succeeds on the integer literals only
IsInt(v) == v \in {"0", "2", "5"}

\* date.fromisoformat(v), as yyyymmdd; a value not listed raises ValueError
DateTable == <<<<"1900-01-01", 19000101>>, <<"2025-12-31", 20251231>>>>

IsDate(v) == \E i \in 1..Len(DateTable) : DateTable[i][1] = v

DateOf(v) == DateTable[CHOOSE i \in 1..Len(DateTable) : DateTable[i][1] = v][2]

\* re.compile(v): "ok", "re.error", or "OverflowError" (a repeat count of
\* 4294967295 or more), which is no subclass of re.error
RegexOutcome(v) ==
    IF v = "[A-Z" THEN "re.error"
    ELSE IF v = "a{4294967295}" THEN "OverflowError"
    ELSE "ok"

\* the characters of the Type values that are written as references; the
\* other Type values of the input texts hold no "@"
ReferenceText(v) ==
    IF v = "@Common:PostalAddress"
    THEN <<"@", "C", "o", "m", "m", "o", "n", ":", "P", "o", "s", "t", "a", "l", "A", "d", "d", "r", "e", "s", "s">>
    ELSE IF v = "@Common Address"
    THEN <<"@", "C", "o", "m", "m", "o", "n", " ", "A", "d", "d", "r", "e", "s", "s">>
    ELSE IF v = "@:Label"
    THEN <<"@", ":", "L", "a", "b", "e", "l">>
    ELSE IF v = "@a-b_1:C-2"
    THEN <<"@", "a", "-", "b", "_", "1", ":", "C", "-", "2">>
    ELSE IF v = "@Common:"
    THEN <<"@", "C", "o", "m", "m", "o", "n", ":">>
    ELSE IF v = "@A:B:C"
    THEN <<"@", "A", ":", "B", ":", "C">>
    ELSE IF v = "@A.b:C"
    THEN <<"@", "A", ".", "b", ":", "C">>
    ELSE <<>>

\* v.startswith("@")
StartsWithAt(v) == ReferenceText(v) # <<>> /\ Head(ReferenceText(v)) = "@"

\* the class [A-Za-z0-9_-]
TokenChars ==
    {UpperChars[i] : i \in DOMAIN UpperChars} \cup {LowerChars[i] : i \in DOMAIN LowerChars}
    \cup {"0", "1", "2", "3", "4", "5", "6", "7", "8", "9", "_", "-"}

\* how many characters [A-Za-z0-9_-]+ takes from position i on
RECURSIVE TokenRun(_, _)
TokenRun(t, i) ==
    IF i <= Len(t) /\ t[i] \in TokenChars THEN 1 + TokenRun(t, i + 1) ELSE 0

\* the rest of the pattern after a first token of n characters: `:`, a
\* second token, the end of the text
MatchesAfterToken(t, n) ==
    /\ n >= 1
    /\ n + 2 <= Len(t) /\ t[n + 2] = ":"
    /\ TokenRun(t, n + 3) >= 1
    /\ n + 2 + TokenRun(t, n + 3) = Len(t)

\* a colon anywhere after the `@` taken for a match
ReferenceLoose(v) ==
    \E i \in 2..Len(ReferenceText(v)) : ReferenceText(v)[i] = ":"

\* ^@([A-Za-z0-9_-]+):([A-Za-z0-9_-]+)$
ReferenceMatches(v) ==
    StartsWithAt(v) /\ MatchesAfterToken(ReferenceText(v), TokenRun(ReferenceText(v), 2))

\* "(" in v
HasParen(v) == v \in {"kg (kilograms)"}

\* re.match(r"^\d+\.", v)
NumberedStart(v) == v \in {"1. None"}

(***************************************************************************)
(* Components                                                              *)
(***************************************************************************)
\* _Component; keywords is the dict as its items <<keyword, value, line>> in
\* insertion order, keyword_order the append-only list of keywords
_Component(name, start_line) ==
    [name |-> name, start_line |-> start_line, keywords |-> <<>>,
     keyword_order |-> <<>>]

\* kw in comp.keywords
Has(comp, kw) == \E i \in 1..Len(comp.keywords) : comp.keywords[i][1] = kw

KwIndex(comp, kw) == CHOOSE i \in 1..Len(comp.keywords) : comp.keywords[i][1] = kw

\* comp.keywords[kw].value / .line
ValueOf(comp, kw) == comp.keywords[KwIndex(comp, kw)][2]
LineOf(comp, kw) == comp.keywords[KwIndex(comp, kw)][3]

\* comp.keywords[keyword] = _KeywordValue(value, line): a new key goes last,
\* a known key keeps its place and takes the new value
SetKeyword(comp, keyword, value, line) ==
    IF Has(comp, keyword)
    THEN [comp EXCEPT !.keywords[KwIndex(comp, keyword)] = <<keyword, value, line>>]
    ELSE [comp EXCEPT !.keywords = Append(@, <<keyword, value, line>>)]

\* the deprecation warning given, the keyword kept under the name it was written with
ProcessKeywordAsWritten(b, component, keyword, value, line_num) ==
    [b |-> IF keyword = "Values"
           THEN _add_warning(b, "W-DEP-001", line_num, "Keyword is deprecated",
                             Some(component.name), Some(keyword))
           ELSE IF keyword = "Unit"
           THEN _add_warning(b, "W-DEP-002", line_num, "Keyword is deprecated",
                             Some(component.name), Some(keyword))
           ELSE b,
     component |-> [SetKeyword(component, keyword, value, line_num)
                       EXCEPT !.keyword_order = Append(@, keyword)]]

\* _process_keyword: the buffers and the component after the keyword line
_process_keyword(b, component, keyword, value, line_num) ==
    LET new_keyword == IF IsAlias(keyword) THEN AliasOf(keyword) ELSE keyword
        b1 == IF keyword = "Values"
              THEN _add_warning(b, "W-DEP-001", line_num, "Keyword is deprecated",
                                Some(component.name), Some(keyword))
              ELSE IF keyword = "Unit"
              THEN _add_warning(b, "W-DEP-002", line_num, "Keyword is deprecated",
                                Some(component.name), Some(keyword))
              ELSE b
        c1 == SetKeyword(component, new_keyword, value, line_num)
    IN  [b |-> b1,
         component |-> [c1 EXCEPT !.keyword_order = Append(@, new_keyword)]]

\* what the three regexes of _parse_components match on a line
HeadingMatch(l) == l.k = "head"
BoldMatch(l) == l.k \in {"bold", "kwbold"}
\* the keyword pattern tried only on lines that do not end in bold
KeywordNotBold(l) == l.k = "kw"
KeywordMatch(l) == l.k \in {"kw", "kwbold"}

\* the loop of _parse_components from body line i on; current is None or
\* Some(component)
RECURSIVE ParseLines(_, _, _, _, _)
ParseLines(b, body, i, components, current) ==
    IF i > Len(body)
    THEN [b |-> b,
          components |-> IF current # None THEN Append(components, current[1])
                         ELSE components]
    ELSE
        LET line == body[i]
            line_num == b.yaml_end_line + i
            heading_match == HeadingMatch(line)
            bold_match == ~heading_match /\ BoldMatch(line)
        IN  IF heading_match \/ bold_match
            THEN IF bold_match /\ KeywordMatch(line)
                 THEN IF current # None
                      THEN LET r == _process_keyword(b, current[1], line.key,
                                                     line.val, line_num)
                           IN  ParseLines(r.b, body, i + 1, components, Some(r.component))
                      ELSE ParseLines(b, body, i + 1, components, current)
                 ELSE ParseLines(b, body, i + 1,
                                 IF current # None THEN Append(components, current[1])
                                 ELSE components,
                                 Some(_Component(Strip(line.name), line_num)))
            ELSE IF KeywordMatch(line) /\ current # None
            THEN LET r == _process_keyword(b, current[1], line.key, line.val, line_num)
                 IN  ParseLines(r.b, body, i + 1, components, Some(r.component))
            ELSE ParseLines(b, body, i + 1, components, current)

\* _parse_components
_parse_components(b, markdown_body) == ParseLines(b, markdown_body, 1, <<>>, None)

(***************************************************************************)
(* Per-component rules.  A frame is the instance's fields during a call    *)
(* together with exc, the exception that is propagating ("" when none).    *)
(***************************************************************************)
\* _validate_component_reference (E-SYN-003)
_validate_component_reference(b, comp, ref) ==
    IF ~ReferenceMatches(ref)
    THEN _add_error(b, "E-SYN-003", LineOf(comp, "Type"), "Invalid component reference",
                    Some(comp.name), Some("Type"))
    ELSE b

\* _validate_numeric_range: min <= max for a pair of numeric keywords
\* the comparison of _validate_numeric_range as min_val >= max_val
NumericRangeStrict(b, comp, min_kw, max_kw, error_code) ==
    IF /\ Has(comp, min_kw) /\ Has(comp, max_kw)
       /\ IsFloat(ValueOf(comp, min_kw)) /\ IsFloat(ValueOf(comp, max_kw))
       /\ FloatOf(ValueOf(comp, min_kw)) >= FloatOf(ValueOf(comp, max_kw))
    THEN _add_error(b, error_code, LineOf(comp, max_kw), "min exceeds max",
                    Some(comp.name), Some(max_kw))
    ELSE b

_validate_numeric_range(b, comp, min_kw, max_kw, error_code) ==
    IF Has(comp, min_kw) /\ Has(comp, max_kw)
    THEN LET min_val_str == ValueOf(comp, min_kw)
             max_val_str == ValueOf(comp, max_kw)
         IN  IF IsFloat(min_val_str) /\ IsFloat(max_val_str)
             THEN IF FloatOf(min_val_str) > FloatOf(max_val_str)
                  THEN _add_error(b, error_code, LineOf(comp, max_kw), "min exceeds max",
                                  Some(comp.name), Some(max_kw))
                  ELSE b
             ELSE b  \* except ValueError: pass
    ELSE b

\* one turn of an E-SYN-002 loop: kw is present, non-empty and does not parse
NumericSyntax(b, comp, kw, parses) ==
    IF Has(comp, kw) /\ ValueOf(comp, kw) # "" /\ ~parses
    THEN _add_error(b, "E-SYN-002", LineOf(comp, kw), "Invalid numeric value",
                    Some(comp.name), Some(kw))
    ELSE b

ParsesFloat(comp, kw) == Has(comp, kw) /\ IsFloat(ValueOf(comp, kw))
ParsesInt(comp, kw) == Has(comp, kw) /\ IsInt(ValueOf(comp, kw))

\* _validate_quantified_type: XdCount, XdQuantity, XdFloat, XdDouble
\* the quantified types without the Units requirement
QuantifiedUnitsOptional(b, comp, type_value) ==
    IF ~Has(comp, "Units") THEN b
    ELSE IF ValueOf(comp, "Units") = ""
    THEN _add_error(b, "E-REQ-002", LineOf(comp, "Units"),
                    "**Units** value cannot be empty", Some(comp.name), Some("Units"))
    ELSE b

_validate_quantified_type(b, comp, type_value) ==
    IF ~Has(comp, "Units")
    THEN _add_error(b, "E-REQ-001", comp.start_line, "requires **Units** keyword",
                    Some(comp.name), None)
    ELSE
        LET units_value == ValueOf(comp, "Units")
            b1 == IF units_value = ""
                  THEN _add_error(b, "E-REQ-002", LineOf(comp, "Units"),
                                  "**Units** value cannot be empty",
                                  Some(comp.name), Some("Units"))
                  ELSE b
            b2 == IF units_value # "" /\ ~HasParen(units_value)
                  THEN _add_warning(b1, "W-AMB-003", LineOf(comp, "Units"),
                                    "Units list lacks definitions - LLM may misinterpret symbols",
                                    Some(comp.name), Some("Units"))
                  ELSE b1
            b3 == _validate_numeric_range(b2, comp, "Min Magnitude", "Max Magnitude",
                                          "E-BIZ-005")
            b4 == NumericSyntax(b3, comp, "Min Magnitude", ParsesFloat(comp, "Min Magnitude"))
            b5 == NumericSyntax(b4, comp, "Max Magnitude", ParsesFloat(comp, "Max Magnitude"))
            b6 == NumericSyntax(b5, comp, "Precision", ParsesFloat(comp, "Precision"))
            b7 == NumericSyntax(b6, comp, "Fraction Digits",
                                ParsesFloat(comp, "Fraction Digits"))
        IN  IF ~Has(comp, "Min Magnitude") /\ ~Has(comp, "Max Magnitude")
            THEN _add_warning(b7, "W-BP-004", comp.start_line,
                     "Consider specifying Min/Max Magnitude constraints for bounded data",
                     Some(comp.name), None)
            ELSE b7

\* _validate_regex_pattern (E-BIZ-007); only re.error is caught
_validate_regex_pattern(b, comp) ==
    LET pattern_val == ValueOf(comp, "Pattern")
        outcome == RegexOutcome(pattern_val)
    IN  IF pattern_val = "" \/ outcome = "ok" THEN b
        ELSE IF outcome = "re.error"
        THEN _add_error(b, "E-BIZ-007", LineOf(comp, "Pattern"), "Invalid regex pattern",
                        Some(comp.name), Some("Pattern"))
        ELSE [b EXCEPT !.exc = outcome]

\* _validate_string_type
_validate_string_type(b, comp) ==
    LET has_pattern == Has(comp, "Pattern")
        has_enum == Has(comp, "Enumeration")
        b1 == IF has_pattern /\ has_enum
              THEN _add_error(b, "E-BIZ-003", LineOf(comp, "Enumeration"),
                       "XdString cannot have both **Pattern** and **Enumeration** - choose one",
                       Some(comp.name), None)
              ELSE b
        b2 == IF has_pattern THEN _validate_regex_pattern(b1, comp) ELSE b1
        b3 == _validate_numeric_range(b2, comp, "Min Length", "Max Length", "E-BIZ-004")
        b4 == NumericSyntax(b3, comp, "Min Length", ParsesInt(comp, "Min Length"))
        b5 == NumericSyntax(b4, comp, "Max Length", ParsesInt(comp, "Max Length"))
        b6 == IF ~Has(comp, "Max Length") /\ ~has_enum
              THEN _add_warning(b5, "W-BP-005", comp.start_line,
                       "Consider specifying **Max Length** to prevent unbounded strings",
                       Some(comp.name), None)
              ELSE b5
        b7 == IF has_enum /\ ~has_pattern
              THEN _add_suggestion(b6, "S-OPT-004", comp.start_line,
                       "Consider using XdToken instead of XdString for categorical data with fixed values",
                       Some(comp.name), None)
              ELSE b6
    IN  IF b2.exc # "" THEN b2 ELSE b7

\* _validate_token_type
_validate_token_type(b, comp) ==
    IF ~Has(comp, "Enumeration")
    THEN _add_warning(b, "W-BP-001", comp.start_line,
                      "XdToken typically has an **Enumeration** of allowed values",
                      Some(comp.name), None)
    ELSE b

\* _validate_boolean_type
\* the Pattern rule applied only when the Enumeration rule did not fire
BooleanFirstRuleOnly(b, comp) ==
    IF Has(comp, "Enumeration")
    THEN _add_error(b, "E-BIZ-001", LineOf(comp, "Enumeration"),
                    "XdBoolean cannot have **Enumeration** keyword",
                    Some(comp.name), Some("Enumeration"))
    ELSE IF Has(comp, "Pattern")
    THEN _add_error(b, "E-BIZ-002", LineOf(comp, "Pattern"),
                    "XdBoolean cannot have **Pattern** keyword",
                    Some(comp.name), Some("Pattern"))
    ELSE b

_validate_boolean_type(b, comp) ==
    LET b1 == IF Has(comp, "Enumeration")
              THEN _add_error(b, "E-BIZ-001", LineOf(comp, "Enumeration"),
                              "XdBoolean cannot have **Enumeration** keyword",
                              Some(comp.name), Some("Enumeration"))
              ELSE b
    IN  IF Has(comp, "Pattern")
        THEN _add_error(b1, "E-BIZ-002", LineOf(comp, "Pattern"),
                        "XdBoolean cannot have **Pattern** keyword",
                        Some(comp.name), Some("Pattern"))
        ELSE b1

\* _validate_temporal_type
_validate_temporal_type(b, comp) ==
    LET b1 == IF ~Has(comp, "Temporal Type")
              THEN _add_warning(b, "W-BP-006", comp.start_line,
                       "XdTemporal should specify **Temporal Type** (date, time, datetime, or duration)",
                       Some(comp.name), None)
              ELSE b
    IN  IF Has(comp, "Min Date") /\ Has(comp, "Max Date")
        THEN LET min_date_str == ValueOf(comp, "Min Date")
                 max_date_str == ValueOf(comp, "Max Date")
             IN  IF IsDate(min_date_str) /\ IsDate(max_date_str)
                 THEN IF DateOf(min_date_str) > DateOf(max_date_str)
                      THEN _add_error(b1, "E-BIZ-006", LineOf(comp, "Max Date"),
                                      "Min Date exceeds Max Date",
                                      Some(comp.name), Some("Max Date"))
                      ELSE b1
                 ELSE b1  \* except ValueError: pass
        ELSE b1

\* _validate_ordinal_type
_validate_ordinal_type(b, comp) ==
    IF ~Has(comp, "Enumeration")
    THEN _add_error(b, "E-REQ-003", comp.start_line,
                    "XdOrdinal requires **Enumeration** keyword with ordered values",
                    Some(comp.name), None)
    ELSE LET enum_val == ValueOf(comp, "Enumeration")
         IN  IF enum_val # "" /\ ~NumberedStart(enum_val)
             THEN _add_warning(b, "W-AMB-004", LineOf(comp, "Enumeration"),
                      "XdOrdinal enumeration should use numbered ordering for clarity",
                      Some(comp.name), Some("Enumeration"))
             ELSE b

\* _validate_cluster_type
_validate_cluster_type(b, comp) ==
    IF ~Has(comp, "Description")
    THEN _add_warning(b, "W-BP-001", comp.start_line,
             "Missing **Description** keyword - LLM may misinterpret cluster purpose",
             Some(comp.name), None)
    ELSE b

\* the type dispatch of _validate_component
TypeSpecific(b, comp, type_value) ==
    IF type_value \in QUANTIFIED_TYPES THEN _validate_quantified_type(b, comp, type_value)
    ELSE IF type_value = "XdString" THEN _validate_string_type(b, comp)
    ELSE IF type_value = "XdToken" THEN _validate_token_type(b, comp)
    ELSE IF type_value = "XdBoolean" THEN _validate_boolean_type(b, comp)
    ELSE IF type_value = "XdTemporal" THEN _validate_temporal_type(b, comp)
    ELSE IF type_value = "XdOrdinal" THEN _validate_ordinal_type(b, comp)
    ELSE IF type_value = "Cluster" THEN _validate_cluster_type(b, comp)
    ELSE b

\* the W-BP-001 / W-BP-002 / W-BP-003 tail of _validate_component
Hygiene(b, comp, type_value) ==
    LET b1 == IF ~Has(comp, "Description") /\ type_value # "Cluster"
              THEN _add_warning(b, "W-BP-001", comp.start_line,
                       "Missing **Description** keyword - LLM may misinterpret component purpose",
                       Some(comp.name), None)
              ELSE b
        b2 == IF Len(Strip(comp.name)) < 3 /\ type_value # "Cluster"
              THEN _add_warning(b1, "W-BP-002", comp.start_line,
                       "Component name is too short - use descriptive names (>3 characters)",
                       Some(comp.name), None)
              ELSE b1
    IN  IF ~Has(comp, "Examples") /\ type_value \notin {"Cluster", "XdBoolean", "XdFile"}
        THEN _add_warning(b2, "W-BP-003", comp.start_line,
                 "Missing **Examples** keyword - examples improve LLM understanding",
                 Some(comp.name), None)
        ELSE b2

\* the characters of a string
Chars(s) == [i \in 1..Len(s) |-> SubSeq(s, i, i)]

\* the alternatives of a pattern that stand at one place: "in" for a word
\* found anywhere, "start" for ^word, "end" for word$
Alternatives(place, words) == {<<place, Chars(w)>> : w \in words}

\* TYPE_SUGGESTIONS: the alternatives of each pattern and the type suggested
TYPE_SUGGESTIONS ==
    <<<<Alternatives("in", {"name", "address", "description", "comment", "note"}),
        "XdString">>,
      <<Alternatives("in", {"count", "number", "age", "quantity"}), "XdCount">>,
      <<Alternatives("in", {"weight", "height", "temperature", "pressure", "dose"}),
        "XdQuantity">>,
      <<Alternatives("in", {"date", "time", "created", "updated", "birth"}),
        "XdTemporal">>,
      <<Alternatives("in", {"status", "level", "grade", "severity", "priority"}),
        "XdOrdinal">>,
      <<Alternatives("start", {"is_", "has_"})
            \cup Alternatives("in", {"enabled", "active", "flag"}),
        "XdBoolean">>,
      <<Alternatives("end", {"_id", "_code", "_key"})
            \cup Alternatives("in", {"identifier"}),
        "XdIdentifier">>,
      <<Alternatives("end", {"_url", "_link"})
            \cup Alternatives("in", {"website", "homepage"}),
        "XdLink">>>>

\* the word stands in the name at position i
WordAt(name, word, i) ==
    i >= 1 /\ i + Len(word) - 1 <= Len(name) /\ SubSeq(name, i, i + Len(word) - 1) = word

\* pattern.search(name) for one alternative of a pattern compiled with (?i),
\* on the name in lower case
Found(alternative, name) ==
    IF alternative[1] = "start" THEN WordAt(name, alternative[2], 1)
    ELSE IF alternative[1] = "end"
    THEN WordAt(name, alternative[2], Len(name) - Len(alternative[2]) + 1)
    ELSE \E i \in 1..Len(name) : WordAt(name, alternative[2], i)

\* the loop of _suggest_type_from_name from table entry i on
RECURSIVE SuggestFrom(_, _)
SuggestFrom(name, i) ==
    IF i > Len(TYPE_SUGGESTIONS) THEN None
    ELSE IF \E alternative \in TYPE_SUGGESTIONS[i][1] : Found(alternative, name)
    THEN Some(TYPE_SUGGESTIONS[i][2])
    ELSE SuggestFrom(name, i + 1)

\* _suggest_type_from_name
_suggest_type_from_name(name) == SuggestFrom(Lower(name), 1)

\* the fix text of E-CMP-001
Cmp001Fix(suggestion) ==
    "Add '**Type**: <type>' as the first keyword"
    \o (IF suggestion # None THEN " (suggestion: " \o suggestion[1] \o ")" ELSE "")

\* _validate_component returning after E-CMP-003 as it does after E-CMP-002
ValidateComponentStopAtOrder(b, comp) ==
    IF Strip(comp.name) = <<>>
    THEN _add_error(b, "E-CMP-004", comp.start_line, "Component name must be non-empty",
                    Some(comp.name), None)
    ELSE IF ~Has(comp, "Type")
    THEN AddErrorWithFix(b, "E-CMP-001", comp.start_line, "Missing **Type** keyword",
                         Cmp001Fix(_suggest_type_from_name(comp.name)),
                         Some(comp.name), None)
    ELSE IF StartsWithAt(ValueOf(comp, "Type"))
    THEN _validate_component_reference(b, comp, ValueOf(comp, "Type"))
    ELSE IF ValueOf(comp, "Type") \notin VALID_TYPES
    THEN _add_error(b, "E-CMP-002", LineOf(comp, "Type"), "Invalid Type",
                    Some(comp.name), Some("Type"))
    ELSE IF comp.keyword_order # <<>> /\ comp.keyword_order[1] # "Type"
    THEN _add_error(b, "E-CMP-003", comp.start_line,
                    "**Type** must be the first keyword in component",
                    Some(comp.name), Some("Type"))
    ELSE Hygiene(TypeSpecific(b, comp, ValueOf(comp, "Type")), comp, ValueOf(comp, "Type"))

\* _validate_component
_validate_component(b, comp) ==
    IF Strip(comp.name) = <<>>
    THEN _add_error(b, "E-CMP-004", comp.start_line, "Component name must be non-empty",
                    Some(comp.name), None)
    ELSE IF ~Has(comp, "Type")
    THEN AddErrorWithFix(b, "E-CMP-001", comp.start_line, "Missing **Type** keyword",
                         Cmp001Fix(_suggest_type_from_name(comp.name)),
                         Some(comp.name), None)
    ELSE
        LET type_value == ValueOf(comp, "Type")
        IN  IF StartsWithAt(type_value)
            THEN _validate_component_reference(b, comp, type_value)
            ELSE IF type_value \notin VALID_TYPES
            THEN _add_error(b, "E-CMP-002", LineOf(comp, "Type"), "Invalid Type",
                            Some(comp.name), Some("Type"))
            ELSE
                LET b1 == IF comp.keyword_order # <<>> /\ comp.keyword_order[1] # "Type"
                          THEN _add_error(b, "E-CMP-003", comp.start_line,
                                   "**Type** must be the first keyword in component",
                                   Some(comp.name), Some("Type"))
                          ELSE b
                    b2 == TypeSpecific(b1, comp, type_value)
                IN  IF b2.exc # "" THEN b2 ELSE Hygiene(b2, comp, type_value)

(***************************************************************************)
(* Cross-component rules and suggestions                                   *)
(***************************************************************************)
\* _validate_root_cluster (E-DOC-007)
_validate_root_cluster(b, first) ==
    IF ~Has(first, "Type") THEN b
    ELSE LET type_val == ValueOf(first, "Type")
         IN  IF type_val # "Cluster" /\ ~StartsWithAt(type_val)
             THEN _add_error(b, "E-DOC-007", first.start_line,
                      "First component must be Type: Cluster (root cluster required)",
                      Some(first.name), None)
             ELSE b

\* the loop of _validate_component_names from component i on; seen is the
\* dict as its items <<name_lower, start_line>>
\* the loop citing the nearest earlier definition instead of the first
RECURSIVE NamesLoopPrevious(_, _, _, _)
NamesLoopPrevious(b, components, i, seen) ==
    IF i > Len(components) THEN b
    ELSE
        LET comp == components[i]
            name_lower == Lower(Strip(comp.name))
            same == {j \in 1..Len(seen) : seen[j][1] = name_lower}
            seen2 == Append(seen, <<name_lower, comp.start_line>>)
        IN  IF same # {}
            THEN NamesLoopPrevious(
                     _add_error(b, "E-CMP-005", comp.start_line,
                         "Duplicate component name (first defined at line "
                             \o ToString(seen[CHOOSE j \in same : \A h \in same : h <= j][2])
                             \o ")",
                         Some(comp.name), None),
                     components, i + 1, seen2)
            ELSE NamesLoopPrevious(b, components, i + 1, seen2)

RECURSIVE NamesLoop(_, _, _, _)
NamesLoop(b, components, i, seen) ==
    IF i > Len(components) THEN b
    ELSE
        LET comp == components[i]
            name_lower == Lower(Strip(comp.name))
        IN  IF \E j \in 1..Len(seen) : seen[j][1] = name_lower
            THEN LET first == seen[CHOOSE j \in 1..Len(seen) : seen[j][1] = name_lower][2]
                 IN  NamesLoop(
                         _add_error(b, "E-CMP-005", comp.start_line,
                             "Duplicate component name (first defined at line "
                                 \o ToString(first) \o ")",
                             Some(comp.name), None),
                         components, i + 1, seen)
            ELSE NamesLoop(b, components, i + 1,
                           Append(seen, <<name_lower, comp.start_line>>))

\* _validate_component_names (E-CMP-005)
_validate_component_names(b, components) == NamesLoop(b, components, 1, <<>>)

IsLowerChar(c) == \E i \in 1..26 : LowerChars[i] = c
IsUpperChar(c) == \E i \in 1..26 : UpperChars[i] = c

\* "_" in n, re.search(r"[a-z][A-Z]", n), " " in n
HasUnderscore(n) == \E i \in 1..Len(n) : n[i] = "_"
HasCamel(n) == \E i \in 1..(Len(n) - 1) : IsLowerChar(n[i]) /\ IsUpperChar(n[i + 1])
HasBlank(n) == \E i \in 1..Len(n) : n[i] = " "

\* the loop with S-OPT-001 for every typed component that has a Pattern
RECURSIVE SuggestLoopPatternOnly(_, _, _)
SuggestLoopPatternOnly(b, components, i) ==
    IF i > Len(components) THEN b
    ELSE IF ~Has(components[i], "Type") THEN SuggestLoopPatternOnly(b, components, i + 1)
    ELSE SuggestLoopPatternOnly(
             IF Has(components[i], "Pattern")
             THEN _add_suggestion(
                      IF ValueOf(components[i], "Type") # "Cluster"
                         /\ ~Has(components[i], "Semantic Links")
                      THEN _add_suggestion(b, "S-QL-001", components[i].start_line,
                               "Consider adding semantic links to improve RDF generation",
                               Some(components[i].name), None)
                      ELSE b,
                      "S-OPT-001", components[i].start_line,
                      "Consider adding **Examples** for complex patterns to improve LLM accuracy",
                      Some(components[i].name), None)
             ELSE IF ValueOf(components[i], "Type") # "Cluster"
                     /\ ~Has(components[i], "Semantic Links")
             THEN _add_suggestion(b, "S-QL-001", components[i].start_line,
                      "Consider adding semantic links to improve RDF generation",
                      Some(components[i].name), None)
             ELSE b,
             components, i + 1)

\* the per-component loop of _add_context_suggestions from component i on
RECURSIVE SuggestLoop(_, _, _)
SuggestLoop(b, components, i) ==
    IF i > Len(components) THEN b
    ELSE
        LET comp == components[i]
        IN  IF ~Has(comp, "Type") THEN SuggestLoop(b, components, i + 1)
            ELSE
                LET type_val == ValueOf(comp, "Type")
                    b1 == IF type_val # "Cluster" /\ ~Has(comp, "Semantic Links")
                          THEN _add_suggestion(b, "S-QL-001", comp.start_line,
                                   "Consider adding semantic links to improve RDF generation",
                                   Some(comp.name), None)
                          ELSE b
                    b2 == IF Has(comp, "Pattern") /\ ~Has(comp, "Examples")
                          THEN _add_suggestion(b1, "S-OPT-001", comp.start_line,
                                   "Consider adding **Examples** for complex patterns to improve LLM accuracy",
                                   Some(comp.name), None)
                          ELSE b1
                IN  SuggestLoop(b2, components, i + 1)

Count(P) == IF P THEN 1 ELSE 0

\* _add_context_suggestions
_add_context_suggestions(b, components) ==
    LET b1 == SuggestLoop(b, components, 1)
        has_snake == \E i \in 1..Len(components) : HasUnderscore(components[i].name)
        has_camel == \E i \in 1..Len(components) : HasCamel(components[i].name)
        has_spaces == \E i \in 1..Len(components) : HasBlank(components[i].name)
        style_count == Count(has_snake) + Count(has_camel) + Count(has_spaces)
    IN  IF style_count > 1
        THEN _add_suggestion(b1, "S-QL-004", components[1].start_line,
                 "Inconsistent naming conventions detected - use consistent style for maintainability",
                 None, None)
        ELSE b1

(***************************************************************************)
(* validate, phase by phase                                                *)
(***************************************************************************)
\* the call's frame over the instance's fields, and back
Frame(s) ==
    [errors |-> s.errors, warnings |-> s.warnings, suggestions |-> s.suggestions,
     components |-> s.components, yaml_end_line |-> s.yaml_end_line, ids |-> s.ids,
     exc |-> ""]

Fields(b) ==
    [errors |-> b.errors, warnings |-> b.warnings, suggestions |-> b.suggestions,
     components |-> b.components, yaml_end_line |-> b.yaml_end_line, ids |-> b.ids]

\* not markdown_body or not markdown_body.strip()
BodyIsEmpty(body) == \A i \in 1..Len(body) : body[i].k = "blank"

\* Phase 1 (extract, parse and validate the front matter): next is "build"
\* on each early return, "body" otherwise
Stop(b) == [b |-> b, next |-> "build", body |-> <<>>]

\* phase 1 without its last early return
GoOnToBody(b1, markdown_body) == [b |-> b1, next |-> "body", body |-> markdown_body]

\* if self._has_critical_errors(): return ...
AfterFrontMatter(b1, markdown_body) ==
    IF _has_critical_errors(b1) THEN Stop(b1)
    ELSE [b |-> b1, next |-> "body", body |-> markdown_body]

\* if front_matter is None: return ...; self._validate_front_matter(front_matter)
AfterParseYaml(y, markdown_body) ==
    IF ~y.ok THEN Stop(y.b)
    ELSE AfterFrontMatter(_validate_front_matter(y.b, y.fm), markdown_body)

\* if yaml_block is None: E-DOC-001, return ...
AfterExtract(x) ==
    IF ~x.found
    THEN Stop(_add_error(x.b, "E-DOC-001", 1, "Missing YAML front matter", None, None))
    ELSE AfterParseYaml(_parse_yaml(x.b, x.yaml_block), x.body)

Phase1(b, markdown_content) ==
    AfterExtract(_extract_yaml_and_body(b, markdown_content))

\* Phases 2 and 3 (the body must hold components): next is "build" on each
\* early return, "components" otherwise
\* self._components = self._parse_components(markdown_body)
StoreComponents(r) == [r.b EXCEPT !.components = r.components]

\* E-DOC-006 put on the closing delimiter's own line
NoComponentsAtDelimiter(b1) ==
    IF b1.components = <<>>
    THEN [b |-> _add_error(b1, "E-DOC-006", b1.yaml_end_line,
                           "No components found in markdown body", None, None),
          next |-> "build"]
    ELSE [b |-> b1, next |-> "components"]

\* if not self._components: E-DOC-006, return ...
AfterParseComponents(b1) ==
    IF b1.components = <<>>
    THEN [b |-> _add_error(b1, "E-DOC-006", b1.yaml_end_line + 1,
                           "No components found in markdown body", None, None),
          next |-> "build"]
    ELSE [b |-> b1, next |-> "components"]

Phase23(b, markdown_body) ==
    IF BodyIsEmpty(markdown_body)
    THEN [b |-> _add_error(b, "E-DOC-006", b.yaml_end_line + 1,
                           "No content found after YAML front matter", None, None),
          next |-> "build"]
    ELSE AfterParseComponents(StoreComponents(_parse_components(b, markdown_body)))

\* Phase 4: the loop over the components, from component i on; an exception
\* ends it
\* the loop of phase 4 ending at the first component without name or Type
RECURSIVE Phase4StopAtFaulty(_, _, _)
Phase4StopAtFaulty(b, components, i) ==
    IF i > Len(components) \/ b.exc # "" THEN b
    ELSE IF Strip(components[i].name) = <<>> \/ ~Has(components[i], "Type")
    THEN _validate_component(b, components[i])
    ELSE Phase4StopAtFaulty(_validate_component(b, components[i]), components, i + 1)

RECURSIVE Phase4(_, _, _)
Phase4(b, components, i) ==
    IF i > Len(components) \/ b.exc # "" THEN b
    ELSE Phase4(_validate_component(b, components[i]), components, i + 1)

\* Phases 5 and 6, on what self._components holds at that moment
Phase56(b) ==
    IF b.components = <<>> THEN [b EXCEPT !.exc = "IndexError"]
    ELSE _add_context_suggestions(
             _validate_component_names(
                 _validate_root_cluster(b, b.components[1]), b.components),
             b.components)

\* the body of validate after the buffers are reset: the final frame
AfterPhase4(b4) == IF b4.exc # "" THEN b4 ELSE Phase56(b4)

AfterPhase23(p2) ==
    IF p2.next = "build" THEN p2.b
    ELSE AfterPhase4(Phase4(p2.b, p2.b.components, 1))

AfterPhase1(p1) ==
    IF p1.next = "build" THEN p1.b
    ELSE AfterPhase23(Phase23(p1.b, p1.body))

RunPhases(b0, markdown_content) == AfterPhase1(Phase1(b0, markdown_content))

(***************************************************************************)
(* Result assembly                                                         *)
(***************************************************************************)
\* the ValidationResult of _build_result; ids are the identities of its
\* three lists (list(...) makes new objects, numbered from id)
ValidationResult(valid, errors, warnings, suggestions, metadata, ids) ==
    [valid |-> valid, errors |-> errors, warnings |-> warnings,
     suggestions |-> suggestions, metadata |-> metadata, ids |-> ids]

Metadata(s, document, time) ==
    [validator |-> "form2sdc-validator-python", version |-> "1.0.0",
     validation_time |-> time, document |-> document,
     total_components |-> Len(s.components), critical_count |-> Len(s.errors),
     warning_count |-> Len(s.warnings), suggestion_count |-> Len(s.suggestions)]

\* valid computed from every finding instead of from the errors alone
BuildResultStrict(s, document, time, id) ==
    ValidationResult(Len(s.errors) = 0 /\ Len(s.warnings) = 0,
                     s.errors, s.warnings, s.suggestions,
                     Metadata(s, document, time),
                     [errors |-> id, warnings |-> id + 1, suggestions |-> id + 2])

_build_result(s, document, time, id) ==
    ValidationResult(Len(s.errors) = 0, s.errors, s.warnings, s.suggestions,
                     Metadata(s, document, time),
                     [errors |-> id, warnings |-> id + 1, suggestions |-> id + 2])

\* what a caller holds in place of a result when the call raised
NoResult ==
    ValidationResult(FALSE, <<>>, <<>>, <<>>, Metadata(NewValidator, "", 0),
                     [errors |-> 0, warnings |-> 0, suggestions |-> 0])

\* how a call that leaves frame b ends: the fields it leaves and what the
\* caller gets
Outcome(b, markdown_content, document, time, id) ==
    [self |-> Fields(b),
     call |-> [text |-> markdown_content, document |-> document,
               outcome |-> IF b.exc = "" THEN "returned" ELSE "raised",
               exc |-> b.exc,
               result |-> IF b.exc = "" THEN _build_result(Fields(b), document, time, id + 3)
                          ELSE NoResult]]

\* a whole call of validate on an instance with fields s
validate(s, markdown_content, document, time, id) ==
    Outcome(RunPhases(Frame(ResetBuffers(s, id)), markdown_content),
            markdown_content, document, time, id)

(***************************************************************************)
(* Input texts                                                             *)
(***************************************************************************)
NameRoot == <<"R", "o", "o", "t">>
NameName == <<"N", "a", "m", "e">>
NameLowerRoot == <<"r", "o", "o", "t">>
NameId == <<"I", "D">>
NameAge == <<"A", "g", "e">>
NameBlank == <<" ">>
NameSnake == <<"z", "i", "p", "_", "c", "o", "d", "e">>
NameCamel == <<"z", "i", "p", "C", "o", "d", "e">>
NameSpaced == <<"Z", "i", "p", " ", "C", "o", "d", "e">>
NameWeight == <<"W", "e", "i", "g", "h", "t">>
NameNotes == <<"N", "o", "t", "e", "s">>

\* concatenation of a sequence of line lists
RECURSIVE Flatten(_)
Flatten(parts) == IF parts = <<>> THEN <<>> ELSE Head(parts) \o Flatten(Tail(parts))

\* all sequences of at most n elements of S
RECURSIVE SeqsUpTo(_, _)
SeqsUpTo(S, n) ==
    IF n = 0 THEN {<<>>}
    ELSE LET shorter == SeqsUpTo(S, n - 1)
         IN  shorter \cup {Append(q, x) : q \in shorter, x \in S}

\* front matter that passes: the nested shape of the project's templates
GoodFrontMatter ==
    <<YamlLine(0, "template_version", "1.0.0"),
      YamlLine(0, "dataset", ""),
      YamlLine(1, "name", "Test"),
      YamlLine(0, "source_language", "English")>>

GoodRoot ==
    <<HeadLine(NameRoot), BlankLine, KwLine("Type", "Cluster"),
      KwLine("Description", "Root cluster")>>

GoodField ==
    <<HeadLine(NameName), KwLine("Type", "XdString"),
      KwLine("Description", "Person's name")>>

\* `---`, the block, `---`, a blank line, the body
Document(bom, front, body) ==
    Text(bom, <<DelimLine(FALSE)>> \o front \o <<DelimLine(FALSE), BlankLine>> \o body)

\* 1. delimiters: what stands on the first line, before it, and where (if
\*    anywhere) the block is closed
FirstLines ==
    {DelimLine(FALSE), DelimLine(TRUE), BlankLine, TextLine, HeadLine(NameRoot),
     YamlLine(0, "template_version", "1.0.0")}

ClosingLines == {<<>>, <<DelimLine(FALSE)>>, <<DelimLine(TRUE)>>, <<BlankLine, DelimLine(FALSE)>>}

BodyEnds == {<<>>, <<BlankLine>>, GoodRoot, GoodRoot \o <<DelimLine(FALSE)>> \o GoodField}

ExtractTexts ==
    {Text(bom, <<first>> \o front \o closing \o body) :
        bom \in 0..MaxBom, first \in FirstLines, front \in {<<>>, GoodFrontMatter},
        closing \in ClosingLines, body \in BodyEnds}

\* 2. front matter: each field absent, empty or given, in both shapes
ProjectNameLines ==
    {<<>>, <<YamlLine(0, "project_name", "")>>,
     <<YamlLine(0, "project_name", YamlEmptyString)>>,
     <<YamlLine(0, "project_name", "Demo")>>}

DatasetLines ==
    {<<>>, <<YamlLine(0, "dataset", "Test")>>,
     <<YamlLine(0, "dataset", ""), YamlLine(1, "name", "Test")>>,
     <<YamlLine(0, "dataset", ""), YamlLine(1, "name", "")>>,
     <<YamlLine(0, "dataset", ""), YamlLine(1, "description", "About")>>,
     <<YamlLine(0, "dataset", ""), YamlLine(1, "name", "Test"),
       YamlLine(1, "description", "About"), YamlLine(1, "creator", "Suite")>>}

SourceLanguageLines ==
    {<<>>, <<YamlLine(0, "source_language", YamlEmptyString)>>,
     <<YamlLine(0, "source_language", "English")>>}

TemplateVersionLines ==
    {<<>>, <<YamlLine(0, "template_version", "")>>,
     <<YamlLine(0, "template_version", "1.0.0")>>}

ExtraLines ==
    {<<>>, <<YamlLine(0, "description", "About")>>, <<YamlLine(0, "author", "Me")>>,
     <<YamlLine(0, "creator", "Me"), HeadLine(NameNotes)>>}

FrontMatters ==
    {pn \o ds \o sl \o tv \o ex :
        pn \in ProjectNameLines, ds \in DatasetLines, sl \in SourceLanguageLines,
        tv \in TemplateVersionLines, ex \in ExtraLines}

\* blocks that are no mapping or do not parse
BrokenFrontMatters ==
    {<<>>, <<BlankLine>>, <<HeadLine(NameNotes)>>,
     <<TextLine>>, GoodFrontMatter \o <<TextLine>>,
     <<YamlLine(0, "template_version", "1.0.0"), KwLine("Type", "Cluster")>>,
     <<YamlLine(0, "dataset", "Test"), YamlLine(1, "name", "Test")>>,
     <<BlankLine, YamlLine(0, "dataset", ""), BoldLine(NameName)>>}

FrontMatterTexts ==
    {Document(0, front, GoodRoot \o GoodField) :
        front \in FrontMatters \cup BrokenFrontMatters}

\* 3. components: one field after a good root, each type with the keywords
\*    its rules read
Field(name, type, keywords) == <<HeadLine(name), KwLine("Type", type)>> \o keywords

Described == <<KwLine("Description", "About"), KwLine("Examples", "a, b")>>

PatternLines ==
    {<<>>, <<KwLine("Pattern", "^[A-Z]+$")>>, <<KwLine("Pattern", "[A-Z")>>,
     <<KwLine("Pattern", "a{4294967295}")>>, <<KwLine("Pattern", "")>>}

EnumerationLines ==
    {<<>>, <<KwLine("Enumeration", "Red, Green")>>, <<KwLine("Values", "Red, Green")>>}

LengthLines ==
    {<<>>, <<KwLine("Max Length", "5")>>,
     <<KwLine("Min Length", "2"), KwLine("Max Length", "5")>>,
     <<KwLine("Min Length", "5"), KwLine("Max Length", "2")>>,
     <<KwLine("Min Length", "abc"), KwLine("Max Length", "5")>>,
     <<KwLine("Min Length", "7.5"), KwLine("Max Length", "5")>>}

StringFields ==
    {Field(NameName, "XdString", pat \o en \o len) :
        pat \in PatternLines, en \in EnumerationLines, len \in LengthLines}

UnitsLines ==
    {<<>>, <<KwLine("Units", "")>>, <<KwLine("Units", "kg")>>,
     <<KwLine("Units", "kg (kilograms)")>>, <<KwLine("Unit", "kg")>>}

MagnitudeLines ==
    {<<>>, <<KwLine("Min Magnitude", "0")>>,
     <<KwLine("Min Magnitude", "0"), KwLine("Max Magnitude", "5")>>,
     <<KwLine("Min Magnitude", "5"), KwLine("Max Magnitude", "1.5")>>,
     <<KwLine("Min Magnitude", "abc"), KwLine("Max Magnitude", "5")>>,
     <<KwLine("Precision", "x"), KwLine("Fraction Digits", "")>>}

QuantifiedFields ==
    {Field(NameWeight, "XdCount", u \o m) : u \in UnitsLines, m \in MagnitudeLines}
    \cup {Field(NameWeight, t, u) :
            t \in {"XdQuantity", "XdFloat", "XdDouble"},
            u \in {<<>>, <<KwLine("Units", "")>>, <<KwLine("Units", "kg (kilograms)")>>}}

BooleanFields ==
    {Field(NameName, "XdBoolean", en \o pat) :
        en \in {<<>>, <<KwLine("Enumeration", "Yes, No")>>},
        pat \in {<<>>, <<KwLine("Pattern", "^[A-Z]+$")>>}}

DateLines ==
    {<<>>, <<KwLine("Min Date", "1900-01-01")>>,
     <<KwLine("Min Date", "1900-01-01"), KwLine("Max Date", "2025-12-31")>>,
     <<KwLine("Min Date", "2025-12-31"), KwLine("Max Date", "1900-01-01")>>,
     <<KwLine("Min Date", "2025-13-45"), KwLine("Max Date", "1900-01-01")>>}

TemporalFields ==
    {Field(NameName, "XdTemporal", tt \o d) :
        tt \in {<<>>, <<KwLine("Temporal Type", "date")>>}, d \in DateLines}

OrdinalFields ==
    {Field(NameName, "XdOrdinal", en) :
        en \in {<<>>, <<KwLine("Enumeration", "1. None")>>,
                <<KwLine("Enumeration", "Red, Green")>>, <<KwLine("Enumeration", "")>>,
                <<KwLine("Values", "1. None")>>}}

OtherTypeFields ==
    {Field(NameName, t, d) :
        t \in {"XdToken", "Cluster", "XdFile", "XdLink", "XdRatio", "XdInterval",
                "String", "", "@Common:PostalAddress", "@Common Address", "@:Label",
                "@a-b_1:C-2", "@Common:", "@A:B:C", "@A.b:C"},
        d \in {<<>>, Described, <<KwLine("Enumeration", "Red, Green")>>}}

\* names, with and without a Type; Type late or twice; bold-only headings
NamedFields ==
    {<<h>> \o k :
        h \in {HeadLine(n) : n \in {NameName, NameLowerRoot, NameId, NameAge, NameBlank,
                                    NameSnake, NameCamel, NameSpaced}}
              \cup {BoldLine(NameName), BoldLine(NameBlank)},
        k \in {<<>>, <<KwLine("Description", "About")>>,
               <<KwLine("Type", "XdString")>> \o Described,
               <<KwLine("Description", "About"), KwLine("Type", "XdString")>>,
               <<KwLine("Type", "String"), KwBoldLine("Type", "**XdFile**")>>,
               <<BlankLine, KwBoldLine("Type", "**XdLink**"), TextLine,
                 KwLine("Semantic Links", "http://x")>>}}

\* components under a heading whose name is blank
UnnamedFields ==
    {Field(NameBlank, "XdCount", <<>>),
     Field(NameBlank, "XdQuantity", <<KwLine("Units", "")>>),
     Field(NameBlank, "XdOrdinal", <<>>),
     Field(NameBlank, "XdString",
           <<KwLine("Pattern", "^[A-Z]+$"), KwLine("Enumeration", "Red, Green")>>),
     Field(NameBlank, "XdBoolean", <<KwLine("Enumeration", "Yes, No")>>),
     Field(NameBlank, "XdBoolean", <<KwLine("Pattern", "^[A-Z]+$")>>),
     Field(NameBlank, "@Common Address", <<>>),
     Field(NameBlank, "@Common:PostalAddress", <<>>)}

\* a deprecated keyword twice, or next to its replacement
DeprecatedFields ==
    {Field(NameName, "XdOrdinal",
           <<KwLine("Values", "Red, Green"), KwLine("Values", "1. None")>>),
     Field(NameName, "XdString",
           <<KwLine("Enumeration", "Red, Green"), KwBoldLine("Values", "**x**")>>),
     Field(NameWeight, "XdCount", <<KwLine("Unit", ""), KwLine("Units", "kg")>>),
     Field(NameWeight, "XdQuantity",
           <<KwLine("Units", "kg (kilograms)"), KwLine("Unit", "")>>),
     <<HeadLine(NameWeight), KwLine("Unit", "kg (kilograms)"), KwLine("Type", "XdFloat"),
       KwLine("Values", "Red, Green")>>}

\* Type declared late, or more than once
ReorderedFields ==
    {<<HeadLine(NameAge), KwLine("Description", "About"), KwLine("Type", "XdCount"),
       KwLine("Description", "")>>,
     <<HeadLine(NameName), KwLine("Type", "XdBoolean"), KwLine("Pattern", "^[A-Z]+$"),
       KwLine("Type", "XdString")>>,
     <<HeadLine(NameName), KwLine("Pattern", "^[A-Z]+$"), KwLine("Type", "String"),
       KwLine("Enumeration", "Red, Green"), KwLine("Type", "XdString")>>,
     <<HeadLine(NameName), KwLine("Description", "About"), BlankLine,
       KwLine("Type", "XdOrdinal")>>}

FieldBlocks ==
    DeprecatedFields \cup ReorderedFields \cup StringFields \cup QuantifiedFields \cup BooleanFields \cup TemporalFields
    \cup OrdinalFields \cup OtherTypeFields \cup NamedFields \cup UnnamedFields

SiblingBlocks ==
    {GoodField,
     <<HeadLine(NameAge), KwLine("Type", "XdCount")>>,
     <<BoldLine(NameSnake), KwLine("Description", "About")>>}

FieldTexts ==
    {Document(0, GoodFrontMatter, GoodRoot \o f \o Flatten(sib)) :
        f \in FieldBlocks, sib \in SeqsUpTo(SiblingBlocks, MaxSiblings)}

\* 4. the first component, and what may stand before it
RootBlocks ==
    {GoodRoot,
     <<HeadLine(NameRoot), KwLine("Type", "Cluster")>>,
     <<BoldLine(NameRoot), KwLine("Type", "@Common:PostalAddress")>>,
     <<HeadLine(NameRoot), KwLine("Type", "@Common Address")>>,
     <<HeadLine(NameRoot), KwLine("Type", "XdString")>>,
     <<HeadLine(NameRoot), KwLine("Type", "String")>>,
     <<HeadLine(NameRoot), KwLine("Description", "Root cluster")>>,
     <<HeadLine(NameRoot), KwLine("Description", "Root cluster"), KwLine("Type", "Cluster")>>,
     <<HeadLine(NameBlank), KwLine("Type", "Cluster")>>,
     <<>>}

Preludes ==
    {<<>>, <<KwLine("Type", "Cluster")>>, <<TextLine, KwBoldLine("Values", "**x**")>>,
     <<YamlLine(0, "source_language", "English")>>}

RootTexts ==
    {Document(0, GoodFrontMatter, pre \o root \o Flatten(sib)) :
        pre \in Preludes, root \in RootBlocks,
        sib \in SeqsUpTo(SiblingBlocks, MaxSiblings)}

\* 5. names: up to MaxSame components whose names agree, or agree up to case
MaxSame == 3

NameUpperRoot == <<"R", "O", "O", "T">>

SameNameBlocks ==
    {<<HeadLine(NameRoot), KwLine("Type", "Cluster")>>,
     <<HeadLine(NameLowerRoot), BlankLine, KwLine("Type", "Cluster")>>,
     <<BoldLine(NameUpperRoot), KwLine("Type", "@Common:PostalAddress"), TextLine>>,
     <<HeadLine(NameName), KwLine("Type", "XdToken")>>,
     <<HeadLine(NameBlank), KwLine("Type", "XdToken")>>}

SameNameTexts ==
    {Document(0, GoodFrontMatter, Flatten(blocks)) :
        blocks \in SeqsUpTo(SameNameBlocks, MaxSame)}

\* 6. sections: headings of the form `Section: label`, the data section
\*    being the root cluster
NameData ==
    <<"D", "a", "t", "a", ":", " ", "R", "e", "c", "o", "r", "d">>
NameSubject ==
    <<"S", "u", "b", "j", "e", "c", "t", ":", " ", "P", "a", "t", "i", "e", "n", "t">>
NameProvider ==
    <<"P", "r", "o", "v", "i", "d", "e", "r", ":", " ", "C", "l", "i", "n", "i", "c">>
NameParticipation ==
    <<"P", "a", "r", "t", "i", "c", "i", "p", "a", "t", "i", "o", "n", ":", " ", "N", "u", "r", "s", "e">>
NameWorkflow ==
    <<"W", "o", "r", "k", "f", "l", "o", "w", ":", " ", "I", "n", "t", "a", "k", "e">>
NameAttestation ==
    <<"A", "t", "t", "e", "s", "t", "a", "t", "i", "o", "n", ":", " ", "S", "i", "g", "n", "e", "d">>
NameAudit ==
    <<"A", "u", "d", "i", "t", ":", " ", "S", "y", "s", "t", "e", "m">>
NameLinks ==
    <<"L", "i", "n", "k", "s", ":", " ", "R", "e", "l", "a", "t", "e", "d">>

SectionNames ==
    {NameSubject, NameProvider, NameParticipation, NameWorkflow, NameAttestation,
     NameAudit, NameLinks}

DataRoot ==
    <<HeadLine(NameData), KwLine("Type", "Cluster"), KwLine("Description", "Root cluster")>>

SectionBlocks ==
    {<<HeadLine(n)>> \o k :
        n \in SectionNames,
        k \in {<<>>, <<KwLine("Description", "About")>>}}

SectionTexts ==
    {Document(0, GoodFrontMatter, DataRoot \o f \o s) :
        f \in {<<>>, GoodField}, s \in SectionBlocks}
    \cup {Document(0, GoodFrontMatter, s \o GoodField \o r) :
            s \in SectionBlocks, r \in {<<>>, DataRoot}}

\* 7. bounds: both bounds of a range on each type that has one, apart,
\*    equal and crossed, with and without a name and Units
Crossed(min_kw, min, max_kw, max) == <<KwLine(min_kw, min), KwLine(max_kw, max)>>

RangeFields ==
    {Field(NameWeight, t, <<KwLine("Units", "kg (kilograms)")>> \o m) :
        t \in {"XdQuantity", "XdFloat", "XdDouble"},
        m \in {Crossed("Min Magnitude", "5", "Max Magnitude", "1.5"),
               Crossed("Min Magnitude", "5", "Max Magnitude", "5.0")}}
    \cup {Field(NameWeight, "XdCount",
                Crossed("Max Magnitude", "2", "Min Magnitude", "5")
                \o <<KwLine("Units", "kg (kilograms)")>>),
          Field(NameBlank, "XdCount",
                <<KwLine("Units", "kg (kilograms)")>>
                \o Crossed("Min Magnitude", "5", "Max Magnitude", "1.5")),
          Field(NameName, "XdString", Crossed("Min Length", "5", "Max Length", "5")),
          Field(NameName, "XdString", Crossed("Min Length", "5", "Max Length", "")),
          Field(NameBlank, "XdString", Crossed("Min Length", "5", "Max Length", "2")),
          Field(NameName, "XdToken", Crossed("Min Length", "5", "Max Length", "2")),
          Field(NameName, "XdTemporal", Crossed("Min Date", "1900-01-01", "Max Date", "1900-01-01")),
          Field(NameName, "XdTemporal", Crossed("Min Date", "2025-12-31", "Max Date", "2025-13-45")),
          Field(NameName, "XdTemporal", Crossed("Min Date", "2025-13-45", "Max Date", "")),
          Field(NameName, "XdTemporal", Crossed("Min Date", "", "Max Date", "1900-01-01")),
          Field(NameBlank, "XdTemporal", Crossed("Min Date", "2025-12-31", "Max Date", "1900-01-01"))}

NameNoteId == <<"n", "o", "t", "e", "_", "I", "d">>
NameIsActive == <<"i", "s", "_", "a", "c", "t", "i", "v", "e">>

\* a Pattern with and without Type and Examples; names without Type
PatternFields ==
    {<<HeadLine(NameNoteId), KwLine("Description", "About")>>,
     <<BoldLine(NameIsActive)>>,
     <<HeadLine(NameWeight), KwLine("Units", "kg")>>,
     <<HeadLine(NameName), KwLine("Pattern", "^[A-Z]+$")>>,
     <<HeadLine(NameName), KwLine("Pattern", "^[A-Z]+$"), KwLine("Examples", "a, b")>>,
     Field(NameName, "XdString", <<KwLine("Pattern", "^[A-Z]+$")>> \o Described),
     Field(NameName, "XdToken", <<KwLine("Pattern", "^[A-Z]+$")>>),
     Field(NameName, "String", <<KwLine("Pattern", "^[A-Z]+$")>>),
     Field(NameBlank, "XdString", <<KwLine("Examples", "a, b"), KwLine("Pattern", "[A-Z")>>)}

RangeTexts ==
    {Document(0, GoodFrontMatter, GoodRoot \o f) : f \in RangeFields \cup PatternFields}

Texts ==
    ExtractTexts \cup FrontMatterTexts \cup FieldTexts \cup RootTexts \cup SameNameTexts
    \cup SectionTexts \cup RangeTexts

\* texts that end validate on each of its return statements, for the calls
\* made before or after another call on the same instance
PriorTexts ==
    {Text(0, <<TextLine>>),
     Document(0, GoodFrontMatter,
              GoodRoot \o Field(NameWeight, "XdCount", <<KwLine("Unit", "kg")>>)
                       \o Field(NameName, "XdString", <<KwLine("Min Length", "x")>>)),
     Document(0, <<YamlLine(0, "project_name", "Demo")>>, <<>>)}

SeqTexts ==
    PriorTexts
    \cup {Document(0, <<TextLine>>, GoodRoot),
          Document(0, GoodFrontMatter, <<>>),
          Document(0, GoodFrontMatter, <<TextLine>>),
          Document(0, GoodFrontMatter, GoodRoot \o GoodField),
          Document(0, GoodFrontMatter,
                   GoodRoot \o Field(NameName, "XdString",
                                     <<KwLine("Pattern", "a{4294967295}")>>))}

Documents == {"", "test.md"}

(***************************************************************************)
(* TemplateBuilder (src/form2sdc/template_builder.py): a FormAnalysis      *)
(* rendered as template text.  Each _render_* gives the lines of the       *)
(* string it returns; "\n".join over strings without a line break is the   *)
(* concatenation of their lines.  Text fields hold no line break; the      *)
(* optional fields that no analysis below sets are left out.               *)
(***************************************************************************)
\* resolve_sdc4_type over FRIENDLY_TO_SDC4
FRIENDLY_TO_SDC4 ==
    <<<<"text", "XdString">>, <<"integer", "XdCount">>, <<"decimal", "XdQuantity">>,
      <<"boolean", "XdBoolean">>, <<"date", "XdTemporal">>, <<"datetime", "XdTemporal">>,
      <<"time", "XdTemporal">>, <<"identifier", "XdString">>, <<"email", "XdString">>,
      <<"url", "XdLink">>>>

resolve_sdc4_type(column_type) ==
    IF \E i \in 1..Len(FRIENDLY_TO_SDC4) : FRIENDLY_TO_SDC4[i][1] = column_type
    THEN FRIENDLY_TO_SDC4[CHOOSE i \in 1..Len(FRIENDLY_TO_SDC4) :
                              FRIENDLY_TO_SDC4[i][1] = column_type][2]
    ELSE column_type

\* f"{n}" of an int
IntText(n) == ToString(n)

\* f"{x}" of a float, x given in tenths: 0.0, 1.5, 5.0
FloatText(tenths) == ToString(tenths \div 10) \o "." \o ToString(tenths % 10)

\* f'"{s}"'
Quoted(s) == "\"" \o s \o "\""

\* the line f"{hashes} {name}": heading_re needs a character after the
\* blank, so the line is a heading unless the name is empty
Heading(level, name) ==
    IF name = <<>> THEN TextLine ELSE Line("head", FALSE, level, name, "", "")

\* one line if the Optional[str] is given and not empty
IfGiven(keyword, value) ==
    IF value # None /\ value[1] # "" THEN <<KwLine(keyword, value[1])>> ELSE <<>>

\* one line if the Optional number is not None
IfNotNone(keyword, value, text) ==
    IF value # None THEN <<KwLine(keyword, text)>> ELSE <<>>

SectionTitle(section_type, name) == section_type \o <<":", " ">> \o name

\* _render_front_matter
_render_front_matter(analysis) ==
    <<DelimLine(FALSE),
      YamlLine(0, "project_name", Quoted(analysis.dataset_name)),
      YamlLine(0, "source_language", Quoted(analysis.source_language)),
      YamlLine(0, "template_version", Quoted("4.0.0"))>>
    \o (IF analysis.dataset_description # ""
        THEN <<YamlLine(0, "description", Quoted(analysis.dataset_description))>> ELSE <<>>)
    \o (IF analysis.creator # None /\ analysis.creator[1] # ""
        THEN <<YamlLine(0, "author", Quoted(analysis.creator[1]))>> ELSE <<>>)
    \o (IF analysis.domain # None /\ analysis.domain[1] # ""
        THEN <<YamlLine(0, "domain", Quoted(analysis.domain[1]))>> ELSE <<>>)
    \o <<DelimLine(FALSE)>>

\* _render_dataset_overview; the comment and text lines are plain text
_render_dataset_overview(analysis) ==
    <<BlankLine>>
    \o (IF analysis.dataset_description # ""
        THEN <<TextLine, BlankLine, TextLine, BlankLine>> ELSE <<>>)
    \o (IF analysis.purpose # None /\ analysis.purpose[1] # ""
        THEN <<TextLine, BlankLine>> ELSE <<>>)

\* _render_enumeration: the keyword line with no value, one line per item
_render_enumeration(items) ==
    <<KwLine("Enumeration", "")>> \o [i \in DOMAIN items |-> TextLine]

\* _render_constraints
_render_constraints(c) ==
    IfGiven("Pattern", c.pattern)
    \o IfNotNone("Min Length", c.min_length, IntText(c.min_length[1]))
    \o IfNotNone("Max Length", c.max_length, IntText(c.max_length[1]))
    \o IfNotNone("Min Magnitude", c.min_value, FloatText(c.min_value[1]))
    \o IfNotNone("Max Magnitude", c.max_value, FloatText(c.max_value[1]))
    \o IfGiven("Temporal Type", c.temporal_type)
    \o IfGiven("Min Date", c.min_date)
    \o IfGiven("Max Date", c.max_date)
    \o (IF c.required # None
        THEN <<KwLine("Constraints", ""), TextLine>> ELSE <<>>)

\* ', '.join(items) of a list that is not empty
RECURSIVE JoinComma(_)
JoinComma(items) ==
    IF Len(items) = 1 THEN items[1] ELSE items[1] \o ", " \o JoinComma(Tail(items))

\* _render_column
_render_column(col, level) ==
    <<Heading(level, col.name), BlankLine,
      KwLine("Type", resolve_sdc4_type(col.column_type))>>
    \o IfGiven("ReuseComponent", col.reuse_component)
    \o (IF col.description # "" THEN <<KwLine("Description", col.description)>> ELSE <<>>)
    \o IfGiven("Units", col.units)
    \o (IF col.enumeration # None /\ col.enumeration[1] # <<>>
        THEN _render_enumeration(col.enumeration[1]) ELSE <<>>)
    \o (IF col.constraints # None THEN _render_constraints(col.constraints[1]) ELSE <<>>)
    \o (IF col.examples # None /\ col.examples[1] # <<>>
        THEN <<KwLine("Examples", JoinComma(col.examples[1]))>> ELSE <<>>)
    \o <<BlankLine>>

\* for col in columns: lines.append(self._render_column(col, level=3))
RECURSIVE RenderColumns(_)
RenderColumns(columns) ==
    IF columns = <<>> THEN <<>>
    ELSE _render_column(Head(columns), 3) \o RenderColumns(Tail(columns))

\* _render_data_section
_render_data_section(cluster) ==
    <<Heading(2, SectionTitle(<<"D", "a", "t", "a">>, cluster.name)), BlankLine,
      KwLine("Type", "Cluster")>>
    \o (IF cluster.description # "" THEN <<KwLine("Description", cluster.description)>>
        ELSE <<>>)
    \o IfGiven("Purpose", cluster.purpose)
    \o <<BlankLine>>
    \o RenderColumns(cluster.columns)

\* _render_party
_render_party(party, section_type) ==
    <<Heading(2, SectionTitle(section_type, party.name)), BlankLine>>
    \o (IF party.description # ""
        THEN <<KwLine("Description", party.description), BlankLine>> ELSE <<>>)
    \o (IF section_type = <<"P", "a", "r", "t", "i", "c", "i", "p", "a", "t", "i", "o", "n">>
        THEN IfGiven("Function", party.function)
             \o IfGiven("Mode", party.mode)
             \o (IF (party.function # None /\ party.function[1] # "")
                    \/ (party.mode # None /\ party.mode[1] # "")
                 THEN <<BlankLine>> ELSE <<>>)
        ELSE <<>>)
    \o RenderColumns(party.columns)

\* for p in analysis.participations: parts.append(self._render_party(p, "Participation"))
RECURSIVE RenderParticipations(_)
RenderParticipations(parties) ==
    IF parties = <<>> THEN <<>>
    ELSE _render_party(Head(parties),
                       <<"P", "a", "r", "t", "i", "c", "i", "p", "a", "t", "i", "o", "n">>)
         \o RenderParticipations(Tail(parties))

\* _render_workflow_section
_render_workflow_section(cluster) ==
    <<Heading(2, SectionTitle(<<"W", "o", "r", "k", "f", "l", "o", "w">>, cluster.name)),
      BlankLine>>
    \o (IF cluster.description # ""
        THEN <<KwLine("Description", cluster.description), BlankLine>> ELSE <<>>)
    \o RenderColumns(cluster.columns)

\* _render_attestation
_render_attestation(att) ==
    <<Heading(2, SectionTitle(<<"A", "t", "t", "e", "s", "t", "a", "t", "i", "o", "n">>,
                              att.name)),
      BlankLine>>
    \o IfGiven("View", att.view)
    \o IfGiven("Reason", att.reason)
    \o <<BlankLine>>

\* _render_audit
_render_audit(audit) ==
    <<Heading(2, SectionTitle(<<"A", "u", "d", "i", "t">>, audit.name)), BlankLine>>
    \o IfGiven("System ID", audit.system_id)
    \o IfGiven("Location", audit.location)
    \o <<BlankLine>>

\* for audit in analysis.audit: parts.append(self._render_audit(audit))
RECURSIVE RenderAudits(_)
RenderAudits(audits) ==
    IF audits = <<>> THEN <<>>
    ELSE _render_audit(Head(audits)) \o RenderAudits(Tail(audits))

\* _render_links: the heading `## Links:`, one line per URI
_render_links(links) ==
    <<Heading(2, <<"L", "i", "n", "k", "s", ":">>), BlankLine>>
    \o [i \in DOMAIN links |-> TextLine]
    \o <<BlankLine>>

\* build with the workflow section rendered before the party sections
BuildWorkflowFirst(analysis) ==
    Text(0,
         _render_front_matter(analysis)
         \o _render_dataset_overview(analysis)
         \o _render_data_section(analysis.data)
         \o (IF analysis.workflow # None
             THEN _render_workflow_section(analysis.workflow[1]) ELSE <<>>)
         \o (IF analysis.subject # None
             THEN _render_party(analysis.subject[1], <<"S", "u", "b", "j", "e", "c", "t">>)
             ELSE <<>>)
         \o (IF analysis.provider # None
             THEN _render_party(analysis.provider[1],
                                <<"P", "r", "o", "v", "i", "d", "e", "r">>)
             ELSE <<>>)
         \o (IF analysis.participations # None
             THEN RenderParticipations(analysis.participations[1]) ELSE <<>>)
         \o (IF analysis.attestation # None
             THEN _render_attestation(analysis.attestation[1]) ELSE <<>>)
         \o (IF analysis.audit # None THEN RenderAudits(analysis.audit[1]) ELSE <<>>)
         \o (IF analysis.links # None /\ analysis.links[1] # <<>>
             THEN _render_links(analysis.links[1]) ELSE <<>>))

\* TemplateBuilder.build; an Optional model is truthy when given, an
\* Optional list when given and not empty
build(analysis) ==
    Text(0,
         _render_front_matter(analysis)
         \o _render_dataset_overview(analysis)
         \o _render_data_section(analysis.data)
         \o (IF analysis.subject # None
             THEN _render_party(analysis.subject[1], <<"S", "u", "b", "j", "e", "c", "t">>)
             ELSE <<>>)
         \o (IF analysis.provider # None
             THEN _render_party(analysis.provider[1],
                                <<"P", "r", "o", "v", "i", "d", "e", "r">>)
             ELSE <<>>)
         \o (IF analysis.participations # None
             THEN RenderParticipations(analysis.participations[1]) ELSE <<>>)
         \o (IF analysis.workflow # None
             THEN _render_workflow_section(analysis.workflow[1]) ELSE <<>>)
         \o (IF analysis.attestation # None
             THEN _render_attestation(analysis.attestation[1]) ELSE <<>>)
         \o (IF analysis.audit # None THEN RenderAudits(analysis.audit[1]) ELSE <<>>)
         \o (IF analysis.links # None /\ analysis.links[1] # <<>>
             THEN _render_links(analysis.links[1]) ELSE <<>>))

(***************************************************************************)
(* Input analyses                                                          *)
(***************************************************************************)
MaxColumns == 2

\* Constraint(...)
Constraint(pattern, min_length, max_length, min_value, max_value, temporal_type,
           min_date, max_date, required) ==
    [pattern |-> pattern, min_length |-> min_length, max_length |-> max_length,
     min_value |-> min_value, max_value |-> max_value, temporal_type |-> temporal_type,
     min_date |-> min_date, max_date |-> max_date, required |-> required]

Lengths(lo, hi) == Constraint(None, Some(lo), Some(hi), None, None, None, None, None, None)
Values(lo, hi) ==
    Constraint(None, None, None, Some(lo), Some(hi), None, None, None, Some(TRUE))
Dates(lo, hi) ==
    Constraint(None, None, None, None, None, Some("date"), Some(lo), Some(hi), None)

\* ColumnDefinition(...)
ColumnDefinition(name, column_type, description, units, enumeration, constraints,
                 examples) ==
    [name |-> name, column_type |-> column_type, description |-> description,
     units |-> units, enumeration |-> enumeration, constraints |-> constraints,
     examples |-> examples, reuse_component |-> None]

EnumerationItem(value) == [value |-> value, label |-> None, description |-> None]

GoodColumn ==
    ColumnDefinition(NameName, "text", "About", None, None, None, Some(<<"a", "b">>))

Columns ==
    {GoodColumn,
     ColumnDefinition(NameNotes, "text", "", None, None, Some(Lengths(2, 5)), None),
     ColumnDefinition(NameNotes, "identifier", "About", None, None, Some(Lengths(5, 2)),
                      Some(<<>>)),
     ColumnDefinition(NameAge, "integer", "About", Some("kg"), None, Some(Values(0, 50)),
                      Some(<<"a, b">>)),
     ColumnDefinition(NameAge, "XdCount", "About", None, None, None, None),
     ColumnDefinition(NameWeight, "decimal", "About", Some("kg (kilograms)"), None,
                      Some(Values(50, 15)), None),
     ColumnDefinition(NameWeight, "XdFloat", "", Some(""), None, None, None),
     ColumnDefinition(NameName, "XdOrdinal", "About", None,
                      Some(<<EnumerationItem("1. None"), EnumerationItem("2. Some")>>),
                      None, None),
     ColumnDefinition(NameId, "XdOrdinal", "About", None, Some(<<>>), None, None),
     ColumnDefinition(NameSpaced, "date", "About", None, None,
                      Some(Dates("1900-01-01", "2025-12-31")), None),
     ColumnDefinition(NameSpaced, "boolean", "About", None, None,
                      Some(Dates("2025-12-31", "1900-01-01")), None),
     ColumnDefinition(<<>>, "url", "About", None, None, None, None)}

\* ClusterDefinition(...)
ClusterDefinition(name, description, columns) ==
    [name |-> name, description |-> description, purpose |-> None, columns |-> columns]

\* PartyDefinition(...)
PartyDefinition(name, description, function, mode, columns) ==
    [name |-> name, description |-> description, function |-> function, mode |-> mode,
     columns |-> columns]

AttestationDefinition(name, view) == [name |-> name, view |-> view, reason |-> None]

AuditDefinition(name, system_id) == [name |-> name, system_id |-> system_id, location |-> None]

\* FormAnalysis(...)
FormAnalysis(dataset_name, dataset_description, creator, data, subject, provider,
             participations, workflow, attestation, audit, links) ==
    [dataset_name |-> dataset_name, dataset_description |-> dataset_description,
     domain |-> IF creator = None THEN None ELSE Some("Health"), creator |-> creator,
     source_language |-> "English", purpose |-> IF creator = None THEN None ELSE Some("About"),
     data |-> data, subject |-> subject, provider |-> provider,
     participations |-> participations, workflow |-> workflow,
     attestation |-> attestation, audit |-> audit, links |-> links]

\* the data section alone, over the columns
ColumnAnalyses ==
    {FormAnalysis("Test", d[1], d[2], ClusterDefinition(NameRoot, "Root cluster", columns),
                  None, None, None, None, None, None, None) :
        d \in {<<"", None>>, <<"About", Some("Suite")>>},
        columns \in SeqsUpTo(Columns, MaxColumns)}

Parties ==
    {PartyDefinition(NameName, "", None, None, <<>>),
     PartyDefinition(NameId, "About", Some("Nurse"), Some("Remote"),
                     <<ColumnDefinition(NameSnake, "text", "About", None, None, None,
                                        Some(<<"a">>))>>)}

\* every combination of the optional sections after one data section
SectionAnalyses ==
    {FormAnalysis("Test", "", None,
                  ClusterDefinition(NameRoot, "Root cluster", <<GoodColumn>>),
                  subject, provider, participations, workflow, attestation, audit, links) :
        subject \in {None} \cup {Some(x) : x \in Parties},
        provider \in {None, Some(PartyDefinition(NameId, "", None, None, <<>>))},
        participations \in {None, Some(<<>>)}
                           \cup {Some(<<x>>) : x \in Parties}
                           \cup {Some(<<x, PartyDefinition(NameAge, "", None, Some("Remote"),
                                                            <<>>)>>) : x \in Parties},
        workflow \in {None, Some(ClusterDefinition(NameNotes, "About",
                                                   <<ColumnDefinition(NameCamel, "boolean", "About",
                                                                      None, None, None, None)>>))},
        attestation \in {None, Some(AttestationDefinition(NameName, Some("application/pdf")))},
        audit \in {None, Some(<<AuditDefinition(NameName, None)>>),
                   Some(<<AuditDefinition(NameAge, Some("sys-01")),
                          AuditDefinition(NameId, None)>>)},
        links \in {None, Some(<<>>), Some(<<"https://example.com">>)}}

Analyses == ColumnAnalyses \cup SectionAnalyses

(***************************************************************************)
(* The instance and its callers                                            *)
(***************************************************************************)
Threads == {1, 2}

Idle == [t \in Threads |-> "idle"]
NoLocals == [t \in Threads |-> <<>>]

\* list(x) copies; a result that shared a list object with the instance
\* would show what the call in progress appends to it
ListNow(s, id, items) ==
    IF id = s.ids.errors THEN s.errors
    ELSE IF id = s.ids.warnings THEN s.warnings
    ELSE IF id = s.ids.suggestions THEN s.suggestions
    ELSE items

HeldAfter(call, s) ==
    [call EXCEPT !.result.errors = ListNow(s, call.result.ids.errors, @),
                 !.result.warnings = ListNow(s, call.result.ids.warnings, @),
                 !.result.suggestions = ListNow(s, call.result.ids.suggestions, @)]

\* the call ends: the instance keeps its fields, the caller gets the outcome
Deliver(r) ==
    /\ self' = r.self
    /\ returned' = Append([k \in DOMAIN returned |-> HeldAfter(returned[k], r.self)],
                          r.call)

\* one whole call validate(markdown_content, document), start to return
Validate ==
    /\ pending # <<>>
    /\ Deliver(validate(self, Head(pending)[1], Head(pending)[2], now, nextId))
    /\ pending' = Tail(pending)
    /\ nextId' = nextId + 6
    /\ UNCHANGED <<now, pc, loc>>

\* time passes between calls
Tick ==
    /\ now < MaxTime
    /\ now' = now + 1
    /\ UNCHANGED <<self, returned, pending, nextId, pc, loc>>

Fresh ==
    /\ self = NewValidator
    /\ returned = <<>>
    /\ now = 0
    /\ nextId = 4
    /\ pc = Idle
    /\ loc = NoLocals

\* Spec: a new instance validates one text, directly or after one earlier call
Init ==
    /\ Fresh
    /\ pending \in {<<<<t, "">>>> : t \in Texts}
                   \cup {<<<<p, "">>, <<t, "">>>> : p \in PriorTexts, t \in Texts}

Next == Validate

Spec == Init /\ [][Next]_vars

\* SpecSeq: one instance validates up to MaxCalls texts in a row as time passes
InitSeq ==
    /\ Fresh
    /\ pending \in SeqsUpTo(SeqTexts \X Documents, MaxCalls)

NextSeq == Validate \/ Tick

SpecSeq == InitSeq /\ [][NextSeq]_vars

\* PipelineResult(analysis, template, validation), with the outcome of the
\* validate call
PipelineResult(analysis, call) ==
    [analysis |-> analysis, text |-> call.text, document |-> call.document,
     outcome |-> call.outcome, exc |-> call.exc, result |-> call.result]

ResultOf(analysis, r) == [self |-> r.self, call |-> PipelineResult(analysis, r.call)]

\* FormToTemplatePipeline.process_analysis: build, then validate on the
\* pipeline's validator
process_analysis ==
    /\ pending # <<>>
    /\ Deliver(ResultOf(Head(pending),
                        validate(self, build(Head(pending)), "from-analysis", now, nextId)))
    /\ pending' = Tail(pending)
    /\ nextId' = nextId + 6
    /\ UNCHANGED <<now, pc, loc>>

\* SpecBuild: a pipeline processes one analysis
InitBuild ==
    /\ Fresh
    /\ pending \in {<<a>> : a \in Analyses}

NextBuild == process_analysis

SpecBuild == InitBuild /\ [][NextBuild]_vars

(***************************************************************************)
(* Two callers in validate on one instance at the same time, as the        *)
(* threads of one FormToTemplatePipeline are.  A caller is preempted       *)
(* between the phases of validate; its locals are its own, the buffers are *)
(* the instance's.                                                         *)
(***************************************************************************)
Locals(t) ==
    [text |-> pending[t][1], document |-> pending[t][2], body |-> <<>>, id |-> nextId + 3]

RaisedCall(t, exc) ==
    [text |-> loc[t].text, document |-> loc[t].document, outcome |-> "raised",
     exc |-> exc, result |-> NoResult]

\* the caller leaves a step with frame b: on to the next phase, or out of
\* validate with the exception
Advance(t, b, next) ==
    /\ self' = Fields(b)
    /\ IF b.exc # ""
       THEN /\ returned' = Append(returned, RaisedCall(t, b.exc))
            /\ pc' = [pc EXCEPT ![t] = "done"]
       ELSE /\ returned' = returned
            /\ pc' = [pc EXCEPT ![t] = next]

\* validate, to the end of the reset of the buffers
ValidateReset(t) ==
    /\ pc[t] = "idle"
    /\ self' = ResetBuffers(self, nextId)
    /\ nextId' = nextId + 6
    /\ loc' = [loc EXCEPT ![t] = Locals(t)]
    /\ pc' = [pc EXCEPT ![t] = "phase1"]
    /\ UNCHANGED <<returned, pending, now>>

\* the caller leaves a phase with outcome p: to the return statement on an
\* early return, else on to phase `next`
AdvancePhase(t, p, next) == Advance(t, p.b, IF p.next = "build" THEN "build" ELSE next)

\* markdown_body, the caller's local
KeepBody(t, p) == loc' = [loc EXCEPT ![t].body = p.body]

\* phase 1
ValidateFrontMatter(t) ==
    /\ pc[t] = "phase1"
    /\ AdvancePhase(t, Phase1(Frame(self), loc[t].text), "phase23")
    /\ KeepBody(t, Phase1(Frame(self), loc[t].text))
    /\ UNCHANGED <<pending, now, nextId>>

\* phases 2 and 3
ValidateBody(t) ==
    /\ pc[t] = "phase23"
    /\ AdvancePhase(t, Phase23(Frame(self), loc[t].body), "phase4")
    /\ UNCHANGED <<pending, now, nextId, loc>>

\* phase 4: the loop over the list self._components holds when it starts
ValidateComponents(t) ==
    /\ pc[t] = "phase4"
    /\ Advance(t, Phase4(Frame(self), self.components, 1), "phase56")
    /\ UNCHANGED <<pending, now, nextId, loc>>

\* phases 5 and 6
ValidateCrossComponent(t) ==
    /\ pc[t] = "phase56"
    /\ Advance(t, Phase56(Frame(self)), "build")
    /\ UNCHANGED <<pending, now, nextId, loc>>

\* return self._build_result(document)
ValidateReturn(t) ==
    /\ pc[t] = "build"
    /\ returned' = Append(returned,
                          [text |-> loc[t].text, document |-> loc[t].document,
                           outcome |-> "returned", exc |-> "",
                           result |-> _build_result(self, loc[t].document, now, loc[t].id)])
    /\ pc' = [pc EXCEPT ![t] = "done"]
    /\ UNCHANGED <<self, pending, now, nextId, loc>>

\* SpecConc: each of two callers validates its own text on the shared instance
InitConc ==
    /\ Fresh
    /\ pending \in {<<<<a, "">>, <<b, "test.md">>>> : a, b \in SeqTexts}

NextConc ==
    \E t \in Threads :
        \/ ValidateReset(t)
        \/ ValidateFrontMatter(t)
        \/ ValidateBody(t)
        \/ ValidateComponents(t)
        \/ ValidateCrossComponent(t)
        \/ ValidateReturn(t)

SpecConc == InitConc /\ [][NextConc]_vars

(***************************************************************************)
(* Properties                                                              *)
(***************************************************************************)
Calls == DOMAIN returned
Returned(k) == returned[k].outcome = "returned"
Result(k) == returned[k].result
Codes(issues) == {issues[i].code : i \in DOMAIN issues}

\* C1: on every return of validate, whatever the text and whichever return
\* statement is taken, result.valid is true exactly when result.errors is
\* empty; warnings and suggestions alone leave the document valid.
C1_ValidIffNoErrors ==
    \A k \in Calls :
        Returned(k) => (Result(k).valid <=> Result(k).errors = <<>>)

\* a document found valid although it has warnings and suggestions
C1_Witness ==
    \E k \in Calls :
        /\ Returned(k)
        /\ Result(k).valid
        /\ Result(k).warnings # <<>>
        /\ Result(k).suggestions # <<>>

\* what the parser makes of a text when validate gets as far as parsing it
ComponentsAfter(p1) ==
    IF p1.next = "build" \/ BodyIsEmpty(p1.body) THEN <<>>
    ELSE _parse_components(p1.b, p1.body).components

ParsedComponents(content) == ComponentsAfter(Phase1(Frame(NewValidator), content))

\* C2: in every result the metadata counters equal the lengths of the three
\* issue lists, and total_components is the number of components parsed from
\* this call's text (0 when the call stopped before parsing).
C2_CountsMatch ==
    \A k \in Calls :
        Returned(k) =>
            /\ Result(k).metadata.critical_count = Len(Result(k).errors)
            /\ Result(k).metadata.warning_count = Len(Result(k).warnings)
            /\ Result(k).metadata.suggestion_count = Len(Result(k).suggestions)
            /\ Result(k).metadata.total_components = Len(ParsedComponents(returned[k].text))

\* a call that stops before parsing, made after a call that found components
\* and issues of all three kinds
C2_Witness ==
    /\ Len(returned) = 2
    /\ Returned(1) /\ Returned(2)
    /\ Result(1).metadata.total_components >= 2
    /\ Result(1).metadata.critical_count >= 1
    /\ Result(1).metadata.warning_count >= 2
    /\ Result(1).metadata.suggestion_count >= 1
    /\ Result(2).metadata.total_components = 0

\* the first line of the text is a `---` line (exact: with nothing around it)
Opens(content) == content.lines[1].k = "delim"
OpensExactly(content) == Opens(content) /\ ~content.lines[1].pad
\* a later line is a `---` line
Closes(content) == \E i \in 2..Len(content.lines) : content.lines[i].k = "delim"

\* the result holds exactly one issue: the error E-DOC-001 at line 1
OnlyDOC001(r) ==
    /\ Len(r.errors) = 1
    /\ r.errors[1].code = "E-DOC-001"
    /\ r.errors[1].severity = "CRITICAL"
    /\ r.errors[1].line = 1
    /\ r.warnings = <<>>
    /\ r.suggestions = <<>>

\* C7: a text without an opening `---` line, or with one but no closing
\* `---` line, gets exactly one issue, the error E-DOC-001 at line 1; the
\* result is invalid and no later phase has run (no component is counted).
C7_NoFrontMatter ==
    \A k \in Calls :
        ~(Opens(returned[k].text) /\ Closes(returned[k].text)) =>
            /\ Returned(k)
            /\ OnlyDOC001(Result(k))
            /\ ~Result(k).valid
            /\ Result(k).metadata.total_components = 0

\* an opened but never closed block in front of a component, validated on an
\* instance that has parsed components before
C7_Witness ==
    /\ Len(returned) = 2
    /\ Result(1).metadata.total_components > 0
    /\ Opens(returned[2].text) /\ ~Closes(returned[2].text)
    /\ \E i \in DOMAIN returned[2].text.lines : returned[2].text.lines[i].k = "head"
    /\ OnlyDOC001(Result(2))

\* C8 as stated: only a first line equal to `---` exactly is accepted; every
\* other first line, blank or text or a delimiter with whitespace around it,
\* fails the extraction with E-DOC-001.
C8_ExactDelimiter ==
    \A k \in Calls :
        ~OpensExactly(returned[k].text) /\ Returned(k) =>
            "E-DOC-001" \in Codes(Result(k).errors)

\* C8: after leading byte-order marks are dropped, the extraction accepts the
\* text exactly when its first line is `---` once surrounding whitespace is
\* stripped from it (and a closing delimiter follows); every other first line
\* fails it with E-DOC-001.
C8_StrippedDelimiter ==
    \A k \in Calls :
        /\ ~Opens(returned[k].text) => Returned(k) /\ OnlyDOC001(Result(k))
        /\ Opens(returned[k].text) /\ Closes(returned[k].text) /\ Returned(k) =>
               "E-DOC-001" \notin Codes(Result(k).errors)

\* a text starting with a byte-order mark and a delimiter line with
\* whitespace around it, whose front matter is accepted
C8_Witness ==
    \E k \in Calls :
        /\ returned[k].text.bom > 0
        /\ Opens(returned[k].text) /\ returned[k].text.lines[1].pad
        /\ Returned(k)
        /\ "E-DOC-001" \notin Codes(Result(k).errors)
        /\ Result(k).metadata.total_components > 0

\* the loaded metadata block of a text that has one
Loaded(content) ==
    safe_load(_extract_yaml_and_body(Frame(NewValidator), content).yaml_block)
\* the block is there and loads as a mapping
IsMapping(content) ==
    /\ Opens(content) /\ Closes(content)
    /\ Loaded(content).kind = "value"
    /\ Loaded(content).value.t = "dict"
FrontMatter(k) == Loaded(returned[k].text).value

\* a top-level field is missing: absent or empty
Missing(fm, key) == ~Truthy(Get(fm, key))
\* dataset.name of the nested shape, PyNone when there is none
NestedName(fm) == IF HasDatasetDict(fm) THEN Get(Get(fm, "dataset"), "name") ELSE PyNone
\* the project name is missing: the flat key when the block has it, else
\* dataset.name, is absent or empty
ProjectNameMissing(fm) ==
    IF In("project_name", fm) THEN Missing(fm, "project_name")
    ELSE ~Truthy(NestedName(fm))

\* C9: for a metadata block that loads as a mapping, E-DOC-003, E-DOC-004
\* and E-DOC-005 are each reported exactly when the project name,
\* source_language and template_version respectively is missing (absent or
\* empty), whatever the state of the other two fields.
C9_RequiredFieldsIndependent ==
    \A k \in Calls :
        IsMapping(returned[k].text) /\ Returned(k) =>
            /\ "E-DOC-003" \in Codes(Result(k).errors) <=> ProjectNameMissing(FrontMatter(k))
            /\ "E-DOC-004" \in Codes(Result(k).errors) <=> Missing(FrontMatter(k), "source_language")
            /\ "E-DOC-005" \in Codes(Result(k).errors) <=> Missing(FrontMatter(k), "template_version")

\* a block with a project name but neither of the other two fields: both
\* E-DOC-004 and E-DOC-005 are reported, and nothing else
C9_Witness ==
    \E k \in Calls :
        /\ IsMapping(returned[k].text)
        /\ ~ProjectNameMissing(FrontMatter(k))
        /\ ~In("source_language", FrontMatter(k))
        /\ ~In("template_version", FrontMatter(k))
        /\ Returned(k)
        /\ Len(Result(k).errors) = 2
        /\ Codes(Result(k).errors) = {"E-DOC-004", "E-DOC-005"}

\* C10 as stated: whenever the metadata gives a non-empty project name as the
\* flat project_name key or as dataset.name, E-DOC-003 is not reported.
C10_EitherShape ==
    \A k \in Calls :
        /\ IsMapping(returned[k].text)
        /\ Returned(k)
        /\ Truthy(Get(FrontMatter(k), "project_name")) \/ Truthy(NestedName(FrontMatter(k)))
        => "E-DOC-003" \notin Codes(Result(k).errors)

\* C10: E-DOC-003 is not reported when the flat project_name key is non-empty,
\* or is absent while dataset.name is non-empty.  A flat key that is present
\* is the canonical project name whatever it holds: when it is empty,
\* E-DOC-003 is reported even though dataset.name is given.
C10_FlatKeyFirst ==
    \A k \in Calls :
        IsMapping(returned[k].text) /\ Returned(k) =>
            LET fm == FrontMatter(k)
                flat == In("project_name", fm)
            IN  /\ (Truthy(Get(fm, "project_name")) \/ (~flat /\ Truthy(NestedName(fm))))
                       => "E-DOC-003" \notin Codes(Result(k).errors)
                /\ (flat /\ ~Truthy(Get(fm, "project_name")))
                       => "E-DOC-003" \in Codes(Result(k).errors)
                /\ flat => _normalize_front_matter(fm).project_name
                               = Some(Item(fm, "project_name"))

\* an empty flat key next to a non-empty dataset.name: E-DOC-003 is reported
C10_Witness ==
    \E k \in Calls :
        /\ IsMapping(returned[k].text)
        /\ In("project_name", FrontMatter(k))
        /\ ~Truthy(Get(FrontMatter(k), "project_name"))
        /\ Truthy(NestedName(FrontMatter(k)))
        /\ Returned(k)
        /\ "E-DOC-003" \in Codes(Result(k).errors)

\* the fields of a ValidationResult
Value(r) ==
    [valid |-> r.valid, errors |-> r.errors, warnings |-> r.warnings,
     suggestions |-> r.suggestions, metadata |-> r.metadata]
\* the same, leaving metadata.validation_time out
Findings(r) ==
    [valid |-> r.valid, errors |-> r.errors, warnings |-> r.warnings,
     suggestions |-> r.suggestions,
     metadata |-> [f \in DOMAIN r.metadata \ {"validation_time"} |-> r.metadata[f]]]
\* two calls of the sequence with the same text and document name
SameInput(i, j) ==
    /\ returned[i].text = returned[j].text
    /\ returned[i].document = returned[j].document
    /\ Returned(i) /\ Returned(j)

\* C3 as stated: validating the same text with the same document name twice
\* on one instance returns two identical results, metadata included.
C3_SameResult ==
    \A i, j \in Calls : SameInput(i, j) => Value(Result(i)) = Value(Result(j))

\* C3: validating the same text with the same document name twice on one
\* instance returns the same valid flag, the same issues in the same order
\* and the same metadata but for validation_time, the clock reading of each
\* call.
C3_SameFindings ==
    \A i, j \in Calls : SameInput(i, j) => Findings(Result(i)) = Findings(Result(j))

\* the same text with issues validated twice, the clock having moved
C3_Witness ==
    /\ Len(returned) = 2
    /\ SameInput(1, 2)
    /\ Result(1).errors # <<>>
    /\ Result(1).suggestions # <<>>
    /\ Result(1).metadata.validation_time # Result(2).metadata.validation_time

\* what a new instance makes of the input of call k
FreshCall(k) == validate(NewValidator, returned[k].text, returned[k].document, 0, 4).call

\* the call ended as the fresh one, with the same issues and component count
SameIssues(call, fresh) ==
    /\ call.outcome = fresh.outcome
    /\ call.outcome = "returned" =>
        /\ call.result.errors = fresh.result.errors
        /\ call.result.warnings = fresh.result.warnings
        /\ call.result.suggestions = fresh.result.suggestions
        /\ call.result.metadata.total_components = fresh.result.metadata.total_components

AsFresh == \A k \in Calls : SameIssues(returned[k], FreshCall(k))

EarlierUnaltered ==
    \A k \in Calls : k \in DOMAIN returned' /\ returned'[k] = returned[k]

\* C4: whatever was validated on the instance before, the errors, warnings,
\* suggestions and component count returned for a text are those a new
\* instance returns for it, and no later call alters a result returned
\* earlier.
C4_NoCarryOver == []AsFresh /\ [][EarlierUnaltered]_vars

\* a clean document validated after one with errors, warnings, suggestions
\* and components; the earlier result still holds its errors
C4_Witness ==
    /\ Len(returned) = 2
    /\ Returned(1) /\ Returned(2)
    /\ Result(1).errors # <<>> /\ Result(1).warnings # <<>>
    /\ Result(1).metadata.total_components > Result(2).metadata.total_components
    /\ Result(2).errors = <<>> /\ Result(2).valid

\* keyword kw of component c stands on line ln with a non-empty value
ValueAt(c, kw, ln) == Has(c, kw) /\ LineOf(c, kw) = ln /\ ValueOf(c, kw) # ""

\* the lines of a text that hold a malformed date, number, regex pattern or
\* component reference, in a component of the type that reads the keyword
MalformedIn(comps, content) ==
        {ln \in 1..Len(content.lines) :
            \E i \in DOMAIN comps :
                LET c == comps[i]
                    type == IF Has(c, "Type") THEN ValueOf(c, "Type") ELSE ""
                IN  \/ /\ type = "XdTemporal"
                       /\ \E kw \in {"Min Date", "Max Date"} :
                              ValueAt(c, kw, ln) /\ ~IsDate(ValueOf(c, kw))
                    \/ /\ type = "XdString"
                       /\ ValueAt(c, "Pattern", ln)
                       /\ RegexOutcome(ValueOf(c, "Pattern")) # "ok"
                    \/ /\ type = "XdString"
                       /\ \E kw \in {"Min Length", "Max Length"} :
                              ValueAt(c, kw, ln) /\ ~IsInt(ValueOf(c, kw))
                    \/ /\ type \in QUANTIFIED_TYPES
                       /\ Has(c, "Units")
                       /\ \E kw \in {"Min Magnitude", "Max Magnitude"} :
                              ValueAt(c, kw, ln) /\ ~IsFloat(ValueOf(c, kw))
                    \/ /\ StartsWithAt(type) /\ ~ReferenceMatches(type)
                       /\ ValueAt(c, "Type", ln)}

MalformedAt(content) == MalformedIn(ParsedComponents(content), content)

\* the lines the issues of a result point at
IssueLines(r) ==
    {r.errors[i].line : i \in DOMAIN r.errors}
        \cup {r.warnings[i].line : i \in DOMAIN r.warnings}
        \cup {r.suggestions[i].line : i \in DOMAIN r.suggestions}

\* C6 as stated: validate never ends in an uncaught error; for every text it
\* returns a ValidationResult, in which every malformed number, date, regex
\* pattern and reference of the text is represented by an issue.
C6_AlwaysReturnsAllReported ==
    \A k \in Calls :
        /\ Returned(k)
        /\ MalformedAt(returned[k].text) \subseteq IssueLines(Result(k))

\* the call ended as the call run alone, with the same result
SameAsAlone(call, alone) ==
    /\ call.outcome = alone.outcome
    /\ call.outcome = "returned" => Findings(call.result) = Findings(alone.result)

\* C5 as stated: under every interleaving of two validate calls running at
\* the same time on the instance, each call ends as it ends when run alone
\* and returns exactly the result it returns alone; no issue or component of
\* one call shows in the other's result.
C5_Isolated == \A k \in Calls : SameAsAlone(returned[k], FreshCall(k))


\* every issue of a result, errors first
AllIssues(r) == r.errors \o r.warnings \o r.suggestions

MetadataErrors == {"E-DOC-001", "E-DOC-002", "E-DOC-003", "E-DOC-004", "E-DOC-005"}

\* C11: when a critical metadata error (E-DOC-001 .. E-DOC-005) is recorded
\* the body is never parsed: total_components is 0, no issue is attributed to
\* a component, there is no warning, and every error is a metadata error (no
\* DOC-006, DOC-007, CMP-, REQ-, BIZ- or SYN- issue).
C11_MetadataErrorStops ==
    \A k \in Calls :
        Returned(k) /\ Codes(Result(k).errors) \cap MetadataErrors # {} =>
            /\ Result(k).metadata.total_components = 0
            /\ \A i \in DOMAIN AllIssues(Result(k)) : AllIssues(Result(k))[i].component = None
            /\ Codes(Result(k).errors) \subseteq MetadataErrors
            /\ Result(k).warnings = <<>>
            /\ Codes(Result(k).suggestions) \subseteq {"S-QL-005"}

\* a missing required field in front of a body with components, validated on
\* an instance that has parsed components before
C11_Witness ==
    /\ Len(returned) = 2
    /\ Result(1).metadata.total_components > 0
    /\ Returned(2)
    /\ "E-DOC-004" \in Codes(Result(2).errors)
    /\ \E i \in DOMAIN returned[2].text.lines : returned[2].text.lines[i].k = "head"
    /\ Result(2).metadata.total_components = 0

\* the metadata block loads as a mapping with the three required fields
MetadataValid(content) ==
    /\ IsMapping(content)
    /\ ~ProjectNameMissing(Loaded(content).value)
    /\ ~Missing(Loaded(content).value, "source_language")
    /\ ~Missing(Loaded(content).value, "template_version")

\* the line number of the closing delimiter of the metadata block
ClosingLine(content) ==
    Min({i \in 2..Len(content.lines) : content.lines[i].k = "delim"})

\* no line after the metadata block is a heading or a bold-only line
NoComponentLine(content) ==
    \A i \in (ClosingLine(content) + 1)..Len(content.lines) :
        content.lines[i].k \notin {"head", "bold"}

\* C12: when the metadata is valid and the body yields no component (it is
\* empty, blank, or has no heading and no bold-only line) the only error is
\* E-DOC-006 on the line after the closing delimiter, the result is invalid,
\* and no later phase has run: no component is counted, no warning is given
\* and the only suggestions are those on the metadata.
C12_NoComponents ==
    \A k \in Calls :
        MetadataValid(returned[k].text) /\ NoComponentLine(returned[k].text) =>
            /\ Returned(k)
            /\ Len(Result(k).errors) = 1
            /\ Result(k).errors[1].code = "E-DOC-006"
            /\ Result(k).errors[1].line = ClosingLine(returned[k].text) + 1
            /\ ~Result(k).valid
            /\ Result(k).metadata.total_components = 0
            /\ Result(k).warnings = <<>>
            /\ Codes(Result(k).suggestions) \subseteq {"S-QL-005"}

\* a body of keyword lines only, after valid metadata
C12_Witness ==
    \E k \in Calls :
        /\ MetadataValid(returned[k].text)
        /\ NoComponentLine(returned[k].text)
        /\ \E i \in (ClosingLine(returned[k].text) + 1)..Len(returned[k].text.lines) :
               returned[k].text.lines[i].k = "kw"
        /\ Returned(k)
        /\ Codes(Result(k).errors) = {"E-DOC-006"}


\* the component is a Cluster or a reference
IsClusterOrReference(first) ==
    /\ Has(first, "Type")
    /\ ValueOf(first, "Type") = "Cluster" \/ StartsWithAt(ValueOf(first, "Type"))

RootRule(first, r) ==
    IF IsClusterOrReference(first)
    THEN "E-DOC-007" \notin Codes(r.errors)
    ELSE "E-DOC-007" \in Codes(r.errors) /\ ~r.valid

\* C13 as stated: whenever at least one component is parsed, E-DOC-007 is reported
\* (and the result is invalid) if the first parsed component is neither a
\* Cluster nor a reference, and is not reported if it is one of the two.
C13_RootCluster ==
    \A k \in Calls :
        Returned(k) /\ Result(k).metadata.total_components > 0 =>
            RootRule(ParsedComponents(returned[k].text)[1], Result(k))


\* the name under which _validate_component_names compares a component
Compared(comp) == Lower(Strip(comp.name))

\* the index of the first component with the name of component j
FirstSame(comps, j) ==
    Min({i \in 1..j : Compared(comps[i]) = Compared(comps[j])})

\* the E-CMP-005 errors reported at a line
DuplicatesAt(errors, line) ==
    {i \in DOMAIN errors : errors[i].code = "E-CMP-005" /\ errors[i].line = line}

DuplicateRule(comps, errors) ==
    /\ \A j \in DOMAIN comps :
          IF FirstSame(comps, j) = j
          THEN DuplicatesAt(errors, comps[j].start_line) = {}
          ELSE /\ Cardinality(DuplicatesAt(errors, comps[j].start_line)) = 1
               /\ \A i \in DuplicatesAt(errors, comps[j].start_line) :
                      /\ errors[i].message =
                             "Duplicate component name (first defined at line "
                                 \o ToString(comps[FirstSame(comps, j)].start_line) \o ")"
                      /\ errors[i].component = Some(comps[j].name)
    /\ Cardinality({i \in DOMAIN errors : errors[i].code = "E-CMP-005"})
           = Len(comps) - Cardinality({Compared(comps[j]) : j \in DOMAIN comps})

\* C14: among the parsed components the first one with a given name
\* (trimmed, compared without case) is never flagged, every later one gets
\* exactly one E-CMP-005 at its own start line citing the start line of the
\* first, so the number of E-CMP-005 errors is the number of components
\* minus the number of distinct names.
C14_DuplicateNames ==
    \A k \in Calls :
        Returned(k) /\ Result(k).metadata.total_components > 0 =>
            DuplicateRule(ParsedComponents(returned[k].text), Result(k).errors)

\* three components with one name up to case: two errors, both citing the first
C14_Witness ==
    \E k \in Calls :
        /\ Returned(k)
        /\ Result(k).metadata.total_components = 3
        /\ Cardinality({i \in DOMAIN Result(k).errors :
                            Result(k).errors[i].code = "E-CMP-005"}) = 2
        /\ \E i, j \in DOMAIN Result(k).errors :
               /\ Result(k).errors[i].code = "E-CMP-005"
               /\ Result(k).errors[j].code = "E-CMP-005"
               /\ Result(k).errors[i].line # Result(k).errors[j].line
               /\ Result(k).errors[i].message = Result(k).errors[j].message
               /\ Result(k).errors[i].component # Result(k).errors[j].component


\* the component declares a type of the set
Typed(c, types) == Has(c, "Type") /\ ValueOf(c, "Type") \in types

\* an error with the code is reported at the line for the component
Reported(errors, code, line, c) ==
    \E i \in DOMAIN errors :
        /\ errors[i].code = code
        /\ errors[i].line = line
        /\ errors[i].component = Some(c.name)

RequiredRule(c, r) ==
    /\ Typed(c, QUANTIFIED_TYPES) /\ ~Has(c, "Units") =>
           Reported(r.errors, "E-REQ-001", c.start_line, c) /\ ~r.valid
    /\ Typed(c, QUANTIFIED_TYPES) /\ Has(c, "Units") /\ ValueOf(c, "Units") = "" =>
           Reported(r.errors, "E-REQ-002", LineOf(c, "Units"), c) /\ ~r.valid
    /\ Typed(c, {"XdOrdinal"}) /\ ~Has(c, "Enumeration") =>
           Reported(r.errors, "E-REQ-003", c.start_line, c) /\ ~r.valid

RequiredRules(comps, r) == \A j \in DOMAIN comps : RequiredRule(comps[j], r)

\* the component's name is not empty once trimmed
Named(c) == Strip(c.name) # <<>>

RequiredRulesNamed(comps, r) ==
    \A j \in DOMAIN comps : Named(comps[j]) => RequiredRule(comps[j], r)

\* C15 as stated: every XdCount, XdQuantity, XdFloat or XdDouble component
\* without a Units keyword gets E-REQ-001 attributed to its name, one whose
\* Units value is empty gets E-REQ-002, every XdOrdinal component without an
\* Enumeration keyword gets E-REQ-003, and the result is invalid.
C15_RequiredKeywords ==
    \A k \in Calls :
        Returned(k) /\ Result(k).metadata.total_components > 0 =>
            RequiredRules(ParsedComponents(returned[k].text), Result(k))

\* C15: the same for every component whose name is not empty; a
\* component with an empty name gets E-CMP-004 and no other rule is applied
\* to it.
C15_RequiredKeywordsNamed ==
    \A k \in Calls :
        Returned(k) /\ Result(k).metadata.total_components > 0 =>
            RequiredRulesNamed(ParsedComponents(returned[k].text), Result(k))

\* an empty Units value on a quantity, reported on the keyword's line
C15_Witness ==
    \E k \in Calls :
        /\ Returned(k)
        /\ \E i \in DOMAIN Result(k).errors :
               /\ Result(k).errors[i].code = "E-REQ-002"
               /\ Result(k).errors[i].component = Some(NameWeight)
               /\ Result(k).errors[i].keyword = Some("Units")
        /\ ~Result(k).valid


\* the lines on which an issue about the component can be reported
LinesOf(c) == {c.start_line} \cup {c.keywords[i][3] : i \in DOMAIN c.keywords}

\* an error with the code is attributed to the component
Gets(errors, code, c) ==
    \E i \in DOMAIN errors :
        /\ errors[i].code = code
        /\ errors[i].component = Some(c.name)
        /\ errors[i].line \in LinesOf(c)

ForbiddenRule(c, r) ==
    /\ Typed(c, {"XdString"}) =>
           (Gets(r.errors, "E-BIZ-003", c) <=> Has(c, "Pattern") /\ Has(c, "Enumeration"))
    /\ Typed(c, {"XdBoolean"}) =>
           /\ Gets(r.errors, "E-BIZ-001", c) <=> Has(c, "Enumeration")
           /\ Gets(r.errors, "E-BIZ-002", c) <=> Has(c, "Pattern")

ForbiddenRules(comps, r) == \A j \in DOMAIN comps : ForbiddenRule(comps[j], r)

ForbiddenRulesNamed(comps, r) ==
    \A j \in DOMAIN comps : Named(comps[j]) => ForbiddenRule(comps[j], r)

\* C16 as stated: an XdString component gets E-BIZ-003 iff it declares both
\* Pattern and Enumeration; an XdBoolean component gets E-BIZ-001 iff it
\* declares Enumeration and E-BIZ-002 iff it declares Pattern, each of the
\* two whatever the other does.
C16_ForbiddenKeywords ==
    \A k \in Calls :
        Returned(k) /\ Result(k).metadata.total_components > 0 =>
            ForbiddenRules(ParsedComponents(returned[k].text), Result(k))

\* C16: the same for every component whose name is not empty; a
\* component with an empty name gets none of the three errors.
C16_ForbiddenKeywordsNamed ==
    \A k \in Calls :
        Returned(k) /\ Result(k).metadata.total_components > 0 =>
            ForbiddenRulesNamed(ParsedComponents(returned[k].text), Result(k))

\* an XdBoolean declaring both keywords gets both errors
C16_Witness ==
    \E k \in Calls :
        /\ Returned(k)
        /\ \E i, j \in DOMAIN Result(k).errors :
               /\ Result(k).errors[i].code = "E-BIZ-001"
               /\ Result(k).errors[j].code = "E-BIZ-002"
               /\ Result(k).errors[i].component = Some(NameName)
               /\ Result(k).errors[j].component = Some(NameName)
               /\ Result(k).errors[i].line < Result(k).errors[j].line


\* a line with a deprecated keyword replaced by the keyword that replaces it
CanonicalLine(l) ==
    IF l.k \in {"kw", "kwbold"} /\ IsAlias(l.key) THEN [l EXCEPT !.key = AliasOf(l.key)]
    ELSE l

\* the text written with the canonical keywords
Canonical(content) ==
    [content EXCEPT !.lines = [i \in DOMAIN content.lines |-> CanonicalLine(content.lines[i])]]

CanonicalCall(k) ==
    validate(NewValidator, Canonical(returned[k].text), returned[k].document, 0, 4).call

\* the first line of the first component
FirstComponentLine(content) ==
    Min({i \in (ClosingLine(content) + 1)..Len(content.lines) :
            content.lines[i].k \in {"head", "bold"}})

\* the lines inside a component that carry the keyword
Occurrences(content, keyword) ==
    {i \in (FirstComponentLine(content) + 1)..Len(content.lines) :
        content.lines[i].k \in {"kw", "kwbold"} /\ content.lines[i].key = keyword}

\* the lines on which the warning is given, and how many warnings there are
WarnedAt(warnings, code) == {warnings[i].line : i \in {j \in DOMAIN warnings : warnings[j].code = code}}
WarnedTimes(warnings, code) == Cardinality({j \in DOMAIN warnings : warnings[j].code = code})

OneWarningEach(content, warnings, code, keyword) ==
    /\ WarnedAt(warnings, code) = Occurrences(content, keyword)
    /\ WarnedTimes(warnings, code) = Cardinality(Occurrences(content, keyword))

SameErrors(call, canonical) ==
    /\ canonical.outcome = "returned"
    /\ call.result.errors = canonical.result.errors
    /\ call.result.valid = canonical.result.valid

\* C17: each occurrence of Values or Unit inside a component gives one
\* warning (W-DEP-001, W-DEP-002) on its line and the keyword is recorded as
\* Enumeration or Units: the parsed components, the errors and the valid flag
\* are those of the same text written with the canonical keywords.
C17_DeprecatedKeywords ==
    \A k \in Calls :
        Returned(k) /\ Result(k).metadata.total_components > 0 =>
            /\ OneWarningEach(returned[k].text, Result(k).warnings, "W-DEP-001", "Values")
            /\ OneWarningEach(returned[k].text, Result(k).warnings, "W-DEP-002", "Unit")
            /\ ParsedComponents(returned[k].text) = ParsedComponents(Canonical(returned[k].text))
            /\ SameErrors(returned[k], CanonicalCall(k))

\* a valid document with the deprecated keyword twice in one component
C17_Witness ==
    \E k \in Calls :
        /\ Returned(k)
        /\ Result(k).valid
        /\ WarnedTimes(Result(k).warnings, "W-DEP-001") = 2
        /\ Canonical(returned[k].text) # returned[k].text


\* the last line of component j: the line before the next component
LastLine(content, comps, j) ==
    IF j < Len(comps) THEN comps[j + 1].start_line - 1 ELSE Len(content.lines)

\* the keyword lines of component j
KeywordLines(content, comps, j) ==
    {i \in (comps[j].start_line + 1)..LastLine(content, comps, j) :
        content.lines[i].k \in {"kw", "kwbold"}}

\* the keyword written on a line, after alias substitution
KeywordAt(content, i) == CanonicalLine(content.lines[i]).key

\* the last line of the set that declares the keyword
LastDeclared(content, lines, keyword) ==
    CHOOSE i \in lines :
        /\ KeywordAt(content, i) = keyword
        /\ \A h \in lines : KeywordAt(content, h) = keyword => h <= i

\* the first keyword of a component is the one on its first keyword line,
\* and each keyword has the value and line of its last declaration
FirstAndLast(content, c, lines) ==
    /\ lines = {} <=> c.keyword_order = <<>>
    /\ lines # {} => c.keyword_order[1] = KeywordAt(content, Min(lines))
    /\ \A n \in DOMAIN c.keywords :
           /\ c.keywords[n][3] = LastDeclared(content, lines, c.keywords[n][1])
           /\ c.keywords[n][2] = content.lines[c.keywords[n][3]].val

\* a warning with the code is attributed to the component
Warned(warnings, code, c) ==
    \E i \in DOMAIN warnings :
        /\ warnings[i].code = code
        /\ warnings[i].component = Some(c.name)
        /\ warnings[i].line \in LinesOf(c)

\* the rules that follow the order check have been applied to the component
LaterRulesRun(c, r) ==
    /\ RequiredRule(c, r)
    /\ ForbiddenRule(c, r)
    /\ Warned(r.warnings, "W-BP-001", c) <=>
           ~Has(c, "Description") /\ ValueOf(c, "Type") # "Cluster"
    /\ Warned(r.warnings, "W-BP-003", c) <=>
           ~Has(c, "Examples") /\ ValueOf(c, "Type") \notin {"Cluster", "XdBoolean", "XdFile"}

OrderRule(c, r) ==
    /\ Gets(r.errors, "E-CMP-003", c) <=>
           Typed(c, VALID_TYPES) /\ c.keyword_order[1] # "Type"
    /\ Gets(r.errors, "E-CMP-003", c) => LaterRulesRun(c, r)

OrderRules(content, comps, r) ==
    \A j \in DOMAIN comps :
        /\ FirstAndLast(content, comps[j], KeywordLines(content, comps, j))
        /\ OrderRule(comps[j], r)

OrderRulesNamed(content, comps, r) ==
    \A j \in DOMAIN comps :
        /\ FirstAndLast(content, comps[j], KeywordLines(content, comps, j))
        /\ Named(comps[j]) => OrderRule(comps[j], r)

\* C18 as stated: a component gets E-CMP-003 exactly when its Type is one
\* of the allowed types and the first keyword of its ordered keyword list
\* (after alias substitution) is not Type; a keyword declared again takes the
\* later value and leaves the first keyword as it was; the type-specific and
\* hygiene rules are still applied to a component that got E-CMP-003.
C18_TypeFirst ==
    \A k \in Calls :
        Returned(k) /\ Result(k).metadata.total_components > 0 =>
            OrderRules(returned[k].text, ParsedComponents(returned[k].text), Result(k))

\* C18: the same, E-CMP-003 being reported only for components
\* whose name is not empty.
C18_TypeFirstNamed ==
    \A k \in Calls :
        Returned(k) /\ Result(k).metadata.total_components > 0 =>
            OrderRulesNamed(returned[k].text, ParsedComponents(returned[k].text), Result(k))

\* Description before Type on a count without Units: E-CMP-003 and then
\* E-REQ-001 for the same component
C18_Witness ==
    \E k \in Calls :
        /\ Returned(k)
        /\ \E i, j \in DOMAIN Result(k).errors :
               /\ i < j
               /\ Result(k).errors[i].code = "E-CMP-003"
               /\ Result(k).errors[j].code = "E-REQ-001"
               /\ Result(k).errors[i].component = Some(NameAge)
               /\ Result(k).errors[j].component = Some(NameAge)
               /\ Result(k).errors[i].line = Result(k).errors[j].line


\* the text has the form @ProjectToken:LabelToken, both tokens non-empty and
\* of letters, digits, underscore and hyphen only
TokenLetters ==
    {"A", "B", "C", "D", "E", "F", "G", "H", "I", "J", "K", "L", "M", "N", "O", "P", "Q",
     "R", "S", "T", "U", "V", "W", "X", "Y", "Z", "a", "b", "c", "d", "e", "f", "g", "h",
     "i", "j", "k", "l", "m", "n", "o", "p", "q", "r", "s", "t", "u", "v", "w", "x", "y",
     "z", "0", "1", "2", "3", "4", "5", "6", "7", "8", "9", "_", "-"}

IsToken(t) == t # <<>> /\ \A i \in DOMAIN t : t[i] \in TokenLetters

WellFormed(t) ==
    /\ t # <<>> /\ t[1] = "@"
    /\ \E p \in 2..Len(t) :
           /\ t[p] = ":"
           /\ IsToken(SubSeq(t, 2, p - 1))
           /\ IsToken(SubSeq(t, p + 1, Len(t)))

\* the component is written as a reference
IsReference(c) == Has(c, "Type") /\ StartsWithAt(ValueOf(c, "Type"))

\* the codes of the issues attributed to the component
CodesFor(issues, c) ==
    {issues[i].code : i \in {n \in DOMAIN issues :
                                 /\ issues[n].component = Some(c.name)
                                 /\ issues[n].line \in LinesOf(c)}}

ReferenceRule(c, r) ==
    /\ "E-SYN-003" \in CodesFor(r.errors, c) <=> ~WellFormed(ReferenceText(ValueOf(c, "Type")))
    /\ CodesFor(r.errors, c) \subseteq {"E-SYN-003"}
    /\ CodesFor(r.warnings, c) \subseteq {"W-DEP-001", "W-DEP-002"}

ReferenceRules(comps, r) ==
    \A j \in DOMAIN comps : IsReference(comps[j]) => ReferenceRule(comps[j], r)

\* C19 as stated: a component whose Type value begins with `@` gets
\* E-SYN-003 iff the value is not of the form @ProjectToken:LabelToken, gets
\* no E-CMP-002 and no type-specific issue, and gets no error at all when the
\* reference is well-formed.
C19_References ==
    \A k \in Calls :
        Returned(k) /\ Result(k).metadata.total_components > 0 =>
            ReferenceRules(ParsedComponents(returned[k].text), Result(k))

ReferenceRuleNamed(c, r) ==
    /\ "E-SYN-003" \in CodesFor(r.errors, c) <=>
           Named(c) /\ ~WellFormed(ReferenceText(ValueOf(c, "Type")))
    /\ "E-CMP-004" \in CodesFor(r.errors, c) <=> ~Named(c)
    /\ CodesFor(r.errors, c) \subseteq {"E-SYN-003", "E-CMP-004", "E-CMP-005"}
    /\ CodesFor(r.warnings, c) \subseteq {"W-DEP-001", "W-DEP-002"}

ReferenceRulesNamed(comps, r) ==
    \A j \in DOMAIN comps : IsReference(comps[j]) => ReferenceRuleNamed(comps[j], r)

\* C19: a reference whose name is not empty gets E-SYN-003 iff the
\* value is not of the form @ProjectToken:LabelToken; one whose name is empty
\* gets E-CMP-004 instead; besides these a reference gets no error but
\* E-CMP-005 (for a name used before) and no type-specific issue.
C19_ReferencesNamed ==
    \A k \in Calls :
        Returned(k) /\ Result(k).metadata.total_components > 0 =>
            ReferenceRulesNamed(ParsedComponents(returned[k].text), Result(k))

\* a reference with hyphen, underscore and digit in its tokens and keywords
\* that a typed component may not have: no error
C19_Witness ==
    \E k \in Calls :
        /\ Returned(k)
        /\ Result(k).valid
        /\ \E i \in DOMAIN returned[k].text.lines :
               /\ returned[k].text.lines[i].key = "Type"
               /\ returned[k].text.lines[i].val = "@a-b_1:C-2"
        /\ \E i \in DOMAIN returned[k].text.lines : returned[k].text.lines[i].key = "Enumeration"


\* the headings that name a section other than the data section
SectionPrefixes ==
    {<<"S", "u", "b", "j", "e", "c", "t", ":">>,
     <<"P", "r", "o", "v", "i", "d", "e", "r", ":">>,
     <<"P", "a", "r", "t", "i", "c", "i", "p", "a", "t", "i", "o", "n", ":">>,
     <<"W", "o", "r", "k", "f", "l", "o", "w", ":">>,
     <<"A", "t", "t", "e", "s", "t", "a", "t", "i", "o", "n", ":">>,
     <<"A", "u", "d", "i", "t", ":">>,
     <<"L", "i", "n", "k", "s", ":">>}

HasPrefix(name, prefix) ==
    Len(name) >= Len(prefix) /\ SubSeq(name, 1, Len(prefix)) = prefix

IsSection(name) == \E prefix \in SectionPrefixes : HasPrefix(name, prefix)

\* a component made of a section heading, without a Type
IsSectionHeading(c) == IsSection(c.name) /\ ~Has(c, "Type")

\* every error reported is reported for a section heading
OnlySectionErrors(errors) ==
    \A i \in DOMAIN errors :
        errors[i].component # None /\ IsSection(errors[i].component[1])

SectionRule(comps, r) ==
    /\ Typed(comps[1], {"Cluster"})
    /\ \E j \in DOMAIN comps : IsSectionHeading(comps[j])
    /\ OnlySectionErrors(r.errors)
    => /\ r.valid
       /\ \A j \in DOMAIN comps :
              IsSectionHeading(comps[j]) =>
                  CodesFor(r.errors, comps[j]) \cap {"E-CMP-001", "E-DOC-007"} = {}

\* C20 as stated: a second-level heading naming a section other than the data section
\* (Subject:, Provider:, Participation:, Workflow:, Attestation:, Audit:,
\* Links:) needs no Type: with valid metadata, a Data Cluster first and no
\* error on any other component, the headings get no E-CMP-001 and no
\* E-DOC-007 and the result is valid.
C20_SectionHeadings ==
    \A k \in Calls :
        /\ Returned(k)
        /\ MetadataValid(returned[k].text)
        /\ Result(k).metadata.total_components > 0
        => SectionRule(ParsedComponents(returned[k].text), Result(k))


\* the analysis of a pipeline result
Analysis(k) == returned[k].analysis


\* the columns of an Optional section, and of a list of parties
ColumnsOf(section) == IF section = None THEN <<>> ELSE section[1].columns

RECURSIVE ColumnsOfAll(_)
ColumnsOfAll(parties) ==
    IF parties = <<>> THEN <<>> ELSE Head(parties).columns \o ColumnsOfAll(Tail(parties))

AllColumns(a) ==
    a.data.columns \o ColumnsOf(a.subject) \o ColumnsOf(a.provider)
    \o (IF a.participations = None THEN <<>> ELSE ColumnsOfAll(a.participations[1]))
    \o ColumnsOf(a.workflow)

UniqueNames(columns) ==
    \A i, j \in DOMAIN columns :
        i # j => Lower(Strip(columns[i].name)) # Lower(Strip(columns[j].name))

Consistent(lo, hi) == lo # None /\ hi # None => lo[1] <= hi[1]

ConsistentDates(lo, hi) == lo # None /\ hi # None => DateOf(lo[1]) <= DateOf(hi[1])

\* the column carries what its type requires
CarriesRequired(col) ==
    /\ Strip(col.name) # <<>>
    /\ resolve_sdc4_type(col.column_type) \in QUANTIFIED_TYPES =>
           col.units # None /\ col.units[1] # ""
    /\ resolve_sdc4_type(col.column_type) = "XdOrdinal" =>
           col.enumeration # None /\ col.enumeration[1] # <<>>
    /\ col.constraints # None =>
           /\ Consistent(col.constraints[1].min_length, col.constraints[1].max_length)
           /\ Consistent(col.constraints[1].min_value, col.constraints[1].max_value)
           /\ ConsistentDates(col.constraints[1].min_date, col.constraints[1].max_date)

WellFormedColumns(columns) ==
    UniqueNames(columns) /\ \A i \in DOMAIN columns : CarriesRequired(columns[i])

\* the analysis has one of the optional sections
HasSection(a) ==
    \/ a.subject # None \/ a.provider # None \/ a.workflow # None \/ a.attestation # None
    \/ a.participations # None /\ a.participations[1] # <<>>
    \/ a.audit # None /\ a.audit[1] # <<>>
    \/ a.links # None /\ a.links[1] # <<>>

\* C21 as stated: for every analysis whose column names are unique and whose
\* columns carry the keywords their type requires, with any combination of
\* the optional sections, validating the built template returns valid.
C21_RoundTrip ==
    \A k \in Calls :
        WellFormedColumns(AllColumns(Analysis(k))) => Returned(k) /\ Result(k).valid


\* the section names in canonical order
SectionOrder ==
    <<<<"D", "a", "t", "a", ":">>,
      <<"S", "u", "b", "j", "e", "c", "t", ":">>,
      <<"P", "r", "o", "v", "i", "d", "e", "r", ":">>,
      <<"P", "a", "r", "t", "i", "c", "i", "p", "a", "t", "i", "o", "n", ":">>,
      <<"W", "o", "r", "k", "f", "l", "o", "w", ":">>,
      <<"A", "t", "t", "e", "s", "t", "a", "t", "i", "o", "n", ":">>,
      <<"A", "u", "d", "i", "t", ":">>,
      <<"L", "i", "n", "k", "s", ":">>>>

\* the second-level headings of a text
SectionLines(content) ==
    {i \in DOMAIN content.lines : content.lines[i].k = "head" /\ content.lines[i].ind = 2}

\* the place of a heading in the canonical order, 0 if it names no section
Rank(l) ==
    IF \E r \in DOMAIN SectionOrder : HasPrefix(l.name, SectionOrder[r])
    THEN CHOOSE r \in DOMAIN SectionOrder : HasPrefix(l.name, SectionOrder[r])
    ELSE 0

\* how many headings of a section the text has
Headings(content, r) ==
    Cardinality({i \in SectionLines(content) : Rank(content.lines[i]) = r})

Given(section) == IF section = None THEN 0 ELSE 1

GivenMany(sections) == IF sections = None THEN 0 ELSE Len(sections[1])

InCanonicalOrder(content, a) ==
    /\ content.lines[1].k = "delim"
    /\ \A i \in SectionLines(content) :
           Rank(content.lines[i]) # 0 /\ i > ClosingLine(content)
    /\ \A i, j \in SectionLines(content) :
           i < j => Rank(content.lines[i]) <= Rank(content.lines[j])
    /\ Headings(content, 1) = 1
    /\ Headings(content, 2) = Given(a.subject)
    /\ Headings(content, 3) = Given(a.provider)
    /\ Headings(content, 4) = GivenMany(a.participations)
    /\ Headings(content, 5) = Given(a.workflow)
    /\ Headings(content, 6) = Given(a.attestation)
    /\ Headings(content, 7) = GivenMany(a.audit)
    /\ Headings(content, 8) = IF GivenMany(a.links) > 0 THEN 1 ELSE 0

\* C22: the built template has the front matter first and then the sections
\* in the order Data, Subject, Provider, Participation(s), Workflow,
\* Attestation, Audit(s), Links: the Data section is always there, each
\* section given in the analysis has its heading after those of the
\* sections before it in this order, and a section not given has none.
C22_CanonicalOrder ==
    \A k \in Calls : InCanonicalOrder(returned[k].text, Analysis(k))

\* every section given, two participations and two audits
C22_Witness ==
    \E k \in Calls :
        /\ Analysis(k).subject # None /\ Analysis(k).provider # None
        /\ GivenMany(Analysis(k).participations) = 2
        /\ Analysis(k).workflow # None /\ Analysis(k).attestation # None
        /\ GivenMany(Analysis(k).audit) = 2
        /\ GivenMany(Analysis(k).links) = 1
        /\ Cardinality(SectionLines(returned[k].text)) = 10


\* the codes of the cross-component rules
CrossCodes == {"E-CMP-005", "E-DOC-007"}

\* the component's Type is neither a reference nor an allowed type
InvalidType(c) ==
    Has(c, "Type") /\ ~StartsWithAt(ValueOf(c, "Type")) /\ ValueOf(c, "Type") \notin VALID_TYPES

\* the per-component rules gave the component this error and nothing else
OnlyError(c, r, code) ==
    /\ CodesFor(r.errors, c) \ CrossCodes = {code}
    /\ Cardinality({i \in DOMAIN r.errors :
                        r.errors[i].code = code /\ r.errors[i].line \in LinesOf(c)}) = 1
    /\ CodesFor(r.warnings, c) \subseteq {"W-DEP-001", "W-DEP-002"}

\* the text without the lines of component j
Without(content, comps, j) ==
    [content EXCEPT !.lines = SubSeq(@, 1, comps[j].start_line - 1)
                              \o SubSeq(@, LastLine(content, comps, j) + 1, Len(@))]

\* the issues of the per-component rules about a component, in order, with
\* lines counted from the component's heading
OwnIssues(issues, c) ==
    LET Own(x) == /\ x.component = Some(c.name)
                  /\ x.line \in LinesOf(c)
                  /\ x.code \notin CrossCodes
    IN  [n \in DOMAIN SelectSeq(issues, Own) |->
            <<SelectSeq(issues, Own)[n].code,
              SelectSeq(issues, Own)[n].line - c.start_line,
              SelectSeq(issues, Own)[n].keyword>>]

SameOwnIssues(c, r, c2, r2) ==
    /\ OwnIssues(r.errors, c) = OwnIssues(r2.errors, c2)
    /\ OwnIssues(r.warnings, c) = OwnIssues(r2.warnings, c2)

\* every sibling of component j has the issues it has in the text without j
SiblingsAsWithout(comps, r, j, comps2, call2) ==
    /\ call2.outcome = "returned"
    /\ Len(comps2) = Len(comps) - 1
    /\ \A i \in DOMAIN comps \ {j} :
           SameOwnIssues(comps[i], r, comps2[IF i < j THEN i ELSE i - 1], call2.result)

Siblings(content, document, comps, r, j) ==
    Len(comps) > 1 =>
        SiblingsAsWithout(comps, r, j, ParsedComponents(Without(content, comps, j)),
                          validate(NewValidator, Without(content, comps, j), document, 0, 4).call)

ShortCircuit(content, document, comps, r) ==
    \A j \in DOMAIN comps :
        /\ ~Named(comps[j]) => OnlyError(comps[j], r, "E-CMP-004")
        /\ Named(comps[j]) /\ ~Has(comps[j], "Type") => OnlyError(comps[j], r, "E-CMP-001")
        /\ InvalidType(comps[j]) => OnlyError(comps[j], r, "E-CMP-002")
        /\ ~Named(comps[j]) \/ ~Has(comps[j], "Type") \/ InvalidType(comps[j]) =>
               Siblings(content, document, comps, r, j)

ShortCircuitNamed(content, document, comps, r) ==
    \A j \in DOMAIN comps :
        /\ ~Named(comps[j]) => OnlyError(comps[j], r, "E-CMP-004")
        /\ Named(comps[j]) /\ ~Has(comps[j], "Type") => OnlyError(comps[j], r, "E-CMP-001")
        /\ Named(comps[j]) /\ InvalidType(comps[j]) => OnlyError(comps[j], r, "E-CMP-002")
        /\ ~Named(comps[j]) \/ ~Has(comps[j], "Type") \/ InvalidType(comps[j]) =>
               Siblings(content, document, comps, r, j)

\* C23 as stated: a component with an empty name gets E-CMP-004, a named one
\* without Type gets E-CMP-001, one whose Type is neither a reference nor an
\* allowed type gets E-CMP-002, each time with no other issue of the
\* per-component rules, and every sibling gets the per-component issues it
\* gets in the text without the faulty component.
C23_ShortCircuit ==
    \A k \in Calls :
        Returned(k) /\ Result(k).metadata.total_components > 0 =>
            ShortCircuit(returned[k].text, returned[k].document,
                         ParsedComponents(returned[k].text), Result(k))

\* C23: the same, E-CMP-002 being given to a component with a Type that is
\* neither a reference nor an allowed type only if its name is not empty.
C23_ShortCircuitNamed ==
    \A k \in Calls :
        Returned(k) /\ Result(k).metadata.total_components > 0 =>
            ShortCircuitNamed(returned[k].text, returned[k].document,
                              ParsedComponents(returned[k].text), Result(k))

\* a component with an empty name between a root and a count without Units:
\* E-CMP-004 for the one, E-REQ-001 for the other
C23_Witness ==
    \E k \in Calls :
        /\ Returned(k)
        /\ Result(k).metadata.total_components = 3
        /\ \E i, j \in DOMAIN Result(k).errors :
               /\ i < j
               /\ Result(k).errors[i].code = "E-CMP-004"
               /\ Result(k).errors[j].code = "E-REQ-001"
               /\ Result(k).errors[j].component = Some(NameAge)


\* the heading lines and bold-only lines of the body
ComponentLines(content) ==
    {i \in (ClosingLine(content) + 1)..Len(content.lines) :
        content.lines[i].k \in {"head", "bold"}}

\* the n-th line of a set of lines
Nth(lines, n) == CHOOSE i \in lines : Cardinality({h \in lines : h <= i}) = n

\* one component per heading or bold-only line, in source order
OnePerLine(content, comps) ==
    /\ Len(comps) = Cardinality(ComponentLines(content))
    /\ \A j \in DOMAIN comps :
           /\ comps[j].start_line = Nth(ComponentLines(content), j)
           /\ comps[j].name = Strip(content.lines[comps[j].start_line].name)
    /\ \A j \in 1..(Len(comps) - 1) : comps[j].start_line < comps[j + 1].start_line

\* every keyword line of the component is recorded, in order, under its
\* canonical name, and the component has no keyword from any other line
Attached(content, c, lines) ==
    /\ Len(c.keyword_order) = Cardinality(lines)
    /\ \A n \in DOMAIN c.keyword_order :
           c.keyword_order[n] = KeywordAt(content, Nth(lines, n))
    /\ {c.keywords[n][1] : n \in DOMAIN c.keywords} = {KeywordAt(content, i) : i \in lines}
    /\ FirstAndLast(content, c, lines)

\* no deprecation warning comes from a line before the first component
PreludeDiscarded(content, r) ==
    \A i \in DOMAIN r.warnings :
        r.warnings[i].code \in {"W-DEP-001", "W-DEP-002"} =>
            /\ r.warnings[i].line > FirstComponentLine(content)
            /\ content.lines[r.warnings[i].line].k \in {"kw", "kwbold"}

ParserRule(content, comps, r) ==
    /\ OnePerLine(content, comps)
    /\ \A j \in DOMAIN comps : Attached(content, comps[j], KeywordLines(content, comps, j))
    /\ comps # <<>> => PreludeDiscarded(content, r)
    /\ r.metadata.total_components \in {0, Len(comps)}

BothFloat(c, min_kw, max_kw) == ParsesFloat(c, min_kw) /\ ParsesFloat(c, max_kw)

BothDate(c) ==
    /\ Has(c, "Min Date") /\ IsDate(ValueOf(c, "Min Date"))
    /\ Has(c, "Max Date") /\ IsDate(ValueOf(c, "Max Date"))

\* the range error is given exactly when the lower bound exceeds the upper
RangeError(c, r, code, exceeds) == Gets(r.errors, code, c) <=> exceeds

FloatExceeds(c, min_kw, max_kw) ==
    FloatOf(ValueOf(c, min_kw)) > FloatOf(ValueOf(c, max_kw))

DateExceeds(c) == DateOf(ValueOf(c, "Min Date")) > DateOf(ValueOf(c, "Max Date"))

RangeRule(c, r) ==
    /\ Typed(c, {"XdString"}) /\ BothFloat(c, "Min Length", "Max Length") =>
           RangeError(c, r, "E-BIZ-004", FloatExceeds(c, "Min Length", "Max Length"))
    /\ Typed(c, QUANTIFIED_TYPES) /\ BothFloat(c, "Min Magnitude", "Max Magnitude") =>
           RangeError(c, r, "E-BIZ-005", FloatExceeds(c, "Min Magnitude", "Max Magnitude"))
    /\ Typed(c, {"XdTemporal"}) /\ BothDate(c) =>
           RangeError(c, r, "E-BIZ-006", DateExceeds(c))

RangeRules(comps, r) == \A j \in DOMAIN comps : RangeRule(comps[j], r)

\* the range rules are reached: the name is not blank and a quantified
\* component declares Units
RangeRulesReached(comps, r) ==
    \A j \in DOMAIN comps :
        Named(comps[j]) /\ (Typed(comps[j], QUANTIFIED_TYPES) => Has(comps[j], "Units")) =>
            RangeRule(comps[j], r)

\* the range rules are not reached: no range error
RangeRulesSkipped(comps, r) ==
    \A j \in DOMAIN comps :
        ~Named(comps[j]) \/ (Typed(comps[j], QUANTIFIED_TYPES) /\ ~Has(comps[j], "Units")) =>
            \A code \in {"E-BIZ-004", "E-BIZ-005", "E-BIZ-006"} :
                ~Gets(r.errors, code, comps[j])

\* C25 as stated: a component of the matching type that declares both bounds
\* with values that parse gets the range error when min > max and no range
\* error when min <= max: E-BIZ-004 for Min Length / Max Length on XdString,
\* E-BIZ-005 for Min Magnitude / Max Magnitude on XdCount, XdQuantity,
\* XdFloat and XdDouble, E-BIZ-006 for Min Date / Max Date on XdTemporal.
C25_Ranges ==
    \A k \in Calls :
        Returned(k) /\ Result(k).metadata.total_components > 0 =>
            RangeRules(ParsedComponents(returned[k].text), Result(k))

\* C25: the same for components with a name that is not blank and, for the
\* quantified types, with a Units keyword; any other component gets no
\* range error.
C25_RangesReached ==
    \A k \in Calls :
        Returned(k) /\ Result(k).metadata.total_components > 0 =>
            /\ RangeRulesReached(ParsedComponents(returned[k].text), Result(k))
            /\ RangeRulesSkipped(ParsedComponents(returned[k].text), Result(k))

\* a quantity whose bounds are equal, without range error
C25_Witness ==
    \E k \in Calls :
        /\ Returned(k)
        /\ Result(k).metadata.total_components = 2
        /\ \E c \in {ParsedComponents(returned[k].text)[2]} :
               /\ Named(c) /\ Typed(c, {"XdQuantity"}) /\ Has(c, "Units")
               /\ BothFloat(c, "Min Magnitude", "Max Magnitude")
               /\ ValueOf(c, "Min Magnitude") # ValueOf(c, "Max Magnitude")
               /\ ~FloatExceeds(c, "Min Magnitude", "Max Magnitude")
               /\ ~FloatExceeds(c, "Max Magnitude", "Min Magnitude")
               /\ ~Gets(Result(k).errors, "E-BIZ-005", c)


\* an error with the code is attributed to the keyword of the component
GetsFor(errors, code, c, kw) ==
    \E i \in DOMAIN errors :
        /\ errors[i].code = code
        /\ errors[i].component = Some(c.name)
        /\ errors[i].keyword = Some(kw)
        /\ errors[i].line = LineOf(c, kw)

\* a range check that runs on the pair: whenever one of the two values does
\* not parse, the keyword gets E-SYN-002; whenever a bound gets E-SYN-002,
\* the pair gets no range error
Swallowed(c, r, min_kw, max_kw, code, min_parses, max_parses) ==
    Has(c, min_kw) /\ Has(c, max_kw) =>
        /\ ~min_parses => GetsFor(r.errors, "E-SYN-002", c, min_kw)
        /\ ~max_parses => GetsFor(r.errors, "E-SYN-002", c, max_kw)
        /\ GetsFor(r.errors, "E-SYN-002", c, min_kw)
           \/ GetsFor(r.errors, "E-SYN-002", c, max_kw) => ~Gets(r.errors, code, c)

SwallowedLengths(c, r) ==
    Typed(c, {"XdString"}) =>
        Swallowed(c, r, "Min Length", "Max Length", "E-BIZ-004",
                  ParsesFloat(c, "Min Length"), ParsesFloat(c, "Max Length"))

SwallowedMagnitudes(c, r) ==
    Typed(c, QUANTIFIED_TYPES) /\ Has(c, "Units") =>
        Swallowed(c, r, "Min Magnitude", "Max Magnitude", "E-BIZ-005",
                  ParsesFloat(c, "Min Magnitude"), ParsesFloat(c, "Max Magnitude"))

SwallowedDates(c, r) ==
    Typed(c, {"XdTemporal"}) =>
        Swallowed(c, r, "Min Date", "Max Date", "E-BIZ-006",
                  Has(c, "Min Date") /\ IsDate(ValueOf(c, "Min Date")),
                  Has(c, "Max Date") /\ IsDate(ValueOf(c, "Max Date")))

SwallowedRule(comps, r, Pair(_, _)) ==
    \A j \in DOMAIN comps : Named(comps[j]) => Pair(comps[j], r)

\* C26 as stated: whenever a range check on lengths, magnitudes or dates
\* passes over a component because one of the two values does not parse,
\* the result has E-SYN-002 on that component for the keyword that does not
\* parse; and whenever E-SYN-002 is reported for a bound, the range error of
\* the pair is not reported.
C26_ParseFailures ==
    \A k \in Calls :
        Returned(k) /\ Result(k).metadata.total_components > 0 =>
            /\ SwallowedRule(ParsedComponents(returned[k].text), Result(k), SwallowedLengths)
            /\ SwallowedRule(ParsedComponents(returned[k].text), Result(k), SwallowedMagnitudes)
            /\ SwallowedRule(ParsedComponents(returned[k].text), Result(k), SwallowedDates)


\* the component has an allowed type other than Cluster
ValidNotCluster(c) == Typed(c, VALID_TYPES \ {"Cluster"})

ShortNameRule(comps, r) ==
    /\ \A j \in DOMAIN comps :
           ValidNotCluster(comps[j]) =>
               (Warned(r.warnings, "W-BP-002", comps[j]) <=> Len(Strip(comps[j].name)) < 4)
    /\ r.valid <=> r.errors = <<>>

\* C27 as stated: a component with an allowed type other than Cluster and no
\* reference gets W-BP-002 when its trimmed name is shorter than 4
\* characters and never when it has 4 or more; the warning leaves valid as
\* the errors make it.
C27_ShortNames ==
    \A k \in Calls :
        Returned(k) /\ Result(k).metadata.total_components > 0 =>
            ShortNameRule(ParsedComponents(returned[k].text), Result(k))


\* the number of suggestions with the code at the component's first line
SuggestedTimes(suggestions, code, c) ==
    Cardinality({i \in DOMAIN suggestions :
                    /\ suggestions[i].code = code
                    /\ suggestions[i].component = Some(c.name)
                    /\ suggestions[i].line = c.start_line})

\* the lines where a component starts are distinct, so that the suggestions
\* at a line are those of one component
PatternRule(comps, r) ==
    /\ \A j \in DOMAIN comps :
           SuggestedTimes(r.suggestions, "S-OPT-001", comps[j])
               = Count(Has(comps[j], "Pattern") /\ ~Has(comps[j], "Examples"))
    /\ r.valid <=> r.errors = <<>>

PatternRuleTyped(comps, r) ==
    /\ \A j \in DOMAIN comps :
           SuggestedTimes(r.suggestions, "S-OPT-001", comps[j])
               = Count(/\ Has(comps[j], "Type")
                       /\ Has(comps[j], "Pattern")
                       /\ ~Has(comps[j], "Examples"))
    /\ r.valid <=> r.errors = <<>>

\* C28 as stated: every parsed component with a Pattern keyword and no
\* Examples keyword gets exactly one S-OPT-001 suggestion at its first line,
\* no component with Examples or without Pattern gets one, and valid is what
\* the errors make it.
C28_PatternExamples ==
    \A k \in Calls :
        Returned(k) /\ Result(k).metadata.total_components > 0 =>
            PatternRule(ParsedComponents(returned[k].text), Result(k))

\* C28: the same for components that declare a Type; a component without
\* Type gets no S-OPT-001.
C28_PatternExamplesTyped ==
    \A k \in Calls :
        Returned(k) /\ Result(k).metadata.total_components > 0 =>
            PatternRuleTyped(ParsedComponents(returned[k].text), Result(k))

\* a component with Type, Pattern and Examples, and so without S-OPT-001,
\* in an invalid result that has another suggestion
C28_Witness ==
    \E k \in Calls :
        /\ Returned(k)
        /\ Result(k).metadata.total_components = 2
        /\ ~Result(k).valid
        /\ Result(k).suggestions # <<>>
        /\ \E c \in {ParsedComponents(returned[k].text)[2]} :
               /\ Has(c, "Type") /\ Has(c, "Pattern") /\ Has(c, "Examples")
               /\ SuggestedTimes(Result(k).suggestions, "S-OPT-001", c) = 0


\* the codes of the validator by their first two characters
CodesBeginning(prefix) ==
    IF prefix = "E-"
    THEN {"E-DOC-001", "E-DOC-002", "E-DOC-003", "E-DOC-004", "E-DOC-005", "E-DOC-006",
          "E-DOC-007", "E-CMP-001", "E-CMP-002", "E-CMP-003", "E-CMP-004", "E-CMP-005",
          "E-REQ-001", "E-REQ-002", "E-REQ-003", "E-BIZ-001", "E-BIZ-002", "E-BIZ-003",
          "E-BIZ-004", "E-BIZ-005", "E-BIZ-006", "E-BIZ-007", "E-SYN-002", "E-SYN-003"}
    ELSE IF prefix = "W-"
    THEN {"W-DEP-001", "W-DEP-002", "W-AMB-003", "W-AMB-004", "W-BP-001", "W-BP-002",
          "W-BP-003", "W-BP-004", "W-BP-005", "W-BP-006"}
    ELSE IF prefix = "S-"
    THEN {"S-OPT-001", "S-OPT-004", "S-QL-001", "S-QL-004", "S-QL-005"}
    ELSE {}

\* every issue of the list has the severity and a code with the prefix
ListAgrees(issues, severity, prefix) ==
    \A i \in DOMAIN issues :
        /\ issues[i].severity = severity
        /\ issues[i].code \in CodesBeginning(prefix)

SeverityRule(r) ==
    /\ ListAgrees(r.errors, "CRITICAL", "E-")
    /\ ListAgrees(r.warnings, "WARNING", "W-")
    /\ ListAgrees(r.suggestions, "SUGGESTION", "S-")

\* C29: in every result each element of errors has severity CRITICAL and a
\* code beginning E-, each element of warnings severity WARNING and a code
\* beginning W-, each element of suggestions severity SUGGESTION and a code
\* beginning S-.
C29_Severities == \A k \in Calls : Returned(k) => SeverityRule(Result(k))

\* a result with errors, a deprecation warning of the parser, and suggestions
C29_Witness ==
    \E k \in Calls :
        /\ Returned(k)
        /\ Result(k).errors # <<>>
        /\ Result(k).suggestions # <<>>
        /\ \E i \in DOMAIN Result(k).warnings : Result(k).warnings[i].code = "W-DEP-002"


\* the first entry of the table, in table order, whose pattern matches
FirstMatch(name) ==
    IF \A i \in DOMAIN TYPE_SUGGESTIONS :
           \A alternative \in TYPE_SUGGESTIONS[i][1] : ~Found(alternative, Lower(name))
    THEN None
    ELSE Some(TYPE_SUGGESTIONS[
             Min({i \in DOMAIN TYPE_SUGGESTIONS :
                     \E alternative \in TYPE_SUGGESTIONS[i][1] :
                         Found(alternative, Lower(name))})][2])

\* the text with a Type keyword on the line after the component's heading
WithType(content, c, type) ==
    [content EXCEPT !.lines = SubSeq(@, 1, c.start_line) \o <<KwLine("Type", type)>>
                              \o SubSeq(@, c.start_line + 1, Len(@))]

\* the component, typed as suggested, gets no E-CMP-002
TypeAccepted(comps2, j, call2) ==
    /\ call2.outcome = "returned"
    /\ ~Gets(call2.result.errors, "E-CMP-002", comps2[j])

SuggestedTypeValid(content, document, c, j, suggestion) ==
    suggestion # None =>
        /\ suggestion[1] \in VALID_TYPES
        /\ TypeAccepted(ParsedComponents(WithType(content, c, suggestion[1])), j,
                        validate(NewValidator, WithType(content, c, suggestion[1]),
                                 document, 0, 4).call)

SuggestionRule(content, document, comps, r) ==
    \A j \in DOMAIN comps :
        Named(comps[j]) /\ ~Has(comps[j], "Type") =>
            /\ \E i \in DOMAIN r.errors :
                   /\ r.errors[i].code = "E-CMP-001"
                   /\ r.errors[i].line = comps[j].start_line
                   /\ r.errors[i].fix = Cmp001Fix(FirstMatch(comps[j].name))
            /\ SuggestedTypeValid(content, document, comps[j], j, FirstMatch(comps[j].name))

\* C30 as stated: the type that the fix text of E-CMP-001 suggests for a
\* component is that of the first entry of the suggestion table, in table
\* order, whose pattern matches the component's name, it is an allowed type,
\* and the component with that Type in place of the missing one gets no
\* E-CMP-002.
C30_Suggestions ==
    \A k \in Calls :
        Returned(k) /\ Result(k).metadata.total_components > 0 =>
            SuggestionRule(returned[k].text, returned[k].document,
                           ParsedComponents(returned[k].text), Result(k))

====
